---- MODULE Spec2Model ----
(***************************************************************************)
(* A model of the renderer of rust-mustache (src/src/template.rs).         *)
(*                                                                         *)
(* Strings are sequences of one-character strings, so that the renderer's  *)
(* character loops (indentation, HTML escaping) are computed and not       *)
(* assumed.  A Data value is a record tagged by its variant.  The          *)
(* recursive walk RenderContext::render is unfolded into an explicit call  *)
(* stack `frames`: one frame per live call of render(), holding the token  *)
(* slice, the index of the token being rendered and what the caller does   *)
(* when the call returns.                                                  *)
(***************************************************************************)
EXTENDS Integers, Sequences, FiniteSets, TLC

VARIABLES
    tmpl,     \* the compiled Template: [tokens, partials]
    data,     \* the root Data handed to render_data
    stack,    \* the scope stack, Vec<&Data>, bottom first
    indent,   \* RenderContext.indent
    frames,   \* the call stack of RenderContext::render
    wr,       \* the writers: wr[1] is the output sink, the rest are the
              \* `bytes` buffers of the render_etag calls in progress
    status,   \* "render" (Template::render called), "running", "done"
              \* (returned), "panic", "overflow" (the recursion ran out
              \* of stack), or the Error that render returned
    pstart,   \* history: for each render_partial in progress, the writer
              \* it writes to and how much that writer held at the call
    calls,    \* history: the calls of render_fun, oldest first; the state of
              \* a closure that counts its calls
    outs,     \* what the render_data calls that returned have written
    other,    \* a second render_data call on another thread, suspended
    input,    \* the Encodable handed to Template::render
    prog,     \* builders: the builder calls still to be made
    builders, \* the MapBuilder / VecBuilder values alive, outermost first
    built,    \* what the outermost build() returned
    want,     \* the Data constructed directly
    rhs,      \* the right-hand side of a comparison of Data
    cmp       \* the outcome of `built == rhs`

builder_vars == <<prog, builders, built, want, rhs, cmp>>

render_vars == <<tmpl, data, stack, indent, frames, wr, status, pstart, calls,
                 outs, other, input>>

vars == <<tmpl, data, stack, indent, frames, wr, status, pstart, calls, outs,
          other, input, builder_vars>>

----------------------------------------------------------------------------
(* Bounds of the model.                                                    *)

MaxListLen == 2   \* longest Data::Vec bound to a section
MaxStrLen  == 2   \* longest Data::Str in the escaping cases
MaxTextLen == 3   \* longest Text chunk / Str value in the indentation cases
MaxPathLen == 2   \* longest tag path in the path-resolution cases
MaxRenders == 2   \* render_data calls made one after the other
MaxDepth   == 6   \* calls of render the thread's stack has room for

----------------------------------------------------------------------------
(* Data (src/src/data.rs).                                                 *)

Str(s)  == [t |-> "Str",  s |-> s]
Bool(b) == [t |-> "Bool", b |-> b]
Vec(xs) == [t |-> "Vec",  xs |-> xs]
Map(m)  == [t |-> "Map",  m |-> m]
Fun(f)  == [t |-> "Fun",  f |-> f]

(* Tokens (parser::Token as render_token matches it).  Every token is a    *)
(* record with the same fields; the fields a variant lacks are empty.      *)
(* The other variants of parser::Token, for which render_token panics, are *)
(* used by the parser alone and are not in a compiled template.            *)

Token(t, text, path, inv, children, otag, src, ctag, name, ind) ==
    [t |-> t, text |-> text, path |-> path, inv |-> inv,
     children |-> children, otag |-> otag, src |-> src, ctag |-> ctag,
     name |-> name, ind |-> ind]

Text(value)  == Token("Text", value, <<>>, FALSE, <<>>, "", <<>>, "", "", <<>>)
ETag(path)   == Token("ETag", <<>>, path, FALSE, <<>>, "", <<>>, "", "", <<>>)
UTag(path)   == Token("UTag", <<>>, path, FALSE, <<>>, "", <<>>, "", "", <<>>)
Section(path, inv, children, otag, src, ctag) ==
    Token("Section", <<>>, path, inv, children, otag, src, ctag, "", <<>>)
Partial(name, ind) ==
    Token("Partial", <<>>, <<>>, FALSE, <<>>, "", <<>>, "", name, ind)

(* Option<&Data> as find returns it, with the panic of find as a third     *)
(* outcome.                                                                *)
None    == [k |-> "None"]
Some(v) == [k |-> "Some", v |-> v]
Panic   == [k |-> "Panic"]

\* no Data: a key that was not inserted, a value not yet built
Absent == [t |-> "Absent"]

\* no second call of render_data
NoCall == [status |-> "none"]

\* no builder is in use
BuildersIdle ==
    /\ prog = <<>>
    /\ builders = <<>>
    /\ built = Absent
    /\ want = Absent
    /\ rhs = Absent
    /\ cmp = "none"

----------------------------------------------------------------------------
(* RenderContext::find.                                                    *)

\* the loop over stack.iter().rev(): the first frame holding path[0]
\* anchors the resolution; a frame that is not a Map panics.
RECURSIVE find_anchor(_, _, _)
find_anchor(key, stk, i) ==
    IF i = 0 THEN None
    ELSE IF stk[i].t = "Map"
         THEN IF key \in DOMAIN stk[i].m
              THEN Some(stk[i].m[key])
              ELSE find_anchor(key, stk, i - 1)
         ELSE Panic

\* the loop over path.slice_from(1)
RECURSIVE find_walk(_, _)
find_walk(parts, value) ==
    IF parts = <<>> THEN Some(value)
    ELSE IF value.t = "Map"
         THEN IF Head(parts) \in DOMAIN value.m
              THEN find_walk(Tail(parts), value.m[Head(parts)])
              ELSE None
         ELSE None

\* find taking the outermost frame holding path[0] as the anchor
find_outermost(path, stk) ==
    IF path = <<>>
    THEN IF stk = <<>> THEN None ELSE Some(stk[Len(stk)])
    ELSE LET rev   == [i \in 1..Len(stk) |-> stk[Len(stk) + 1 - i]]
             value == find_anchor(path[1], rev, Len(rev))
         IN  IF value.k = "Some" THEN find_walk(Tail(path), value.v)
             ELSE value

find(path, stk) ==
    IF path = <<>>
    THEN IF stk = <<>> THEN None ELSE Some(stk[Len(stk)])
    ELSE LET value == find_anchor(path[1], stk, Len(stk))
         IN  IF value.k = "Some" THEN find_walk(Tail(path), value.v)
             ELSE value

----------------------------------------------------------------------------
(* RenderContext::render_text: the bytes written for a Text chunk.         *)

\* v.find('\n'): the 0-based index of the first newline of v, or -1
RECURSIVE find_newline(_, _)
find_newline(v, i) ==
    IF i > Len(v) THEN -1
    ELSE IF v[i] = "\n" THEN i - 1
    ELSE find_newline(v, i + 1)

\* the while loop, from byte offset pos
RECURSIVE render_text_from(_, _, _)
render_text_from(ind, value, pos) ==
    IF pos >= Len(value) THEN <<>>
    ELSE LET v    == SubSeq(value, pos + 1, Len(value))
             i    == find_newline(v, 1)
             line == IF i = -1 THEN v ELSE SubSeq(v, 1, i + 1)
             next == IF i = -1 THEN Len(value) ELSE pos + i + 1
         IN  (IF line[1] # "\n" THEN ind ELSE <<>>) \o line
                 \o render_text_from(ind, value, next)

\* render_text writing the indent before the chunk only
render_text_first_line(ind, value) ==
    IF value = <<>> THEN <<>> ELSE ind \o value

\* render_text indenting the lines that are a lone newline as well
RECURSIVE render_text_from_all(_, _, _)
render_text_from_all(ind, value, pos) ==
    IF pos >= Len(value) THEN <<>>
    ELSE LET v    == SubSeq(value, pos + 1, Len(value))
             i    == find_newline(v, 1)
             line == IF i = -1 THEN v ELSE SubSeq(v, 1, i + 1)
             next == IF i = -1 THEN Len(value) ELSE pos + i + 1
         IN  ind \o line \o render_text_from_all(ind, value, next)

render_text_all_lines(ind, value) ==
    IF ind = <<>> THEN value ELSE render_text_from_all(ind, value, 0)

render_text(ind, value) ==
    IF ind = <<>> THEN value ELSE render_text_from(ind, value, 0)

----------------------------------------------------------------------------
(* RenderContext::render_etag: the match on each buffered character.       *)

\* escape_char without the arm for the apostrophe
escape_char_no_apos(c) ==
    CASE c = "<"  -> <<"&", "l", "t", ";">>
      [] c = ">"  -> <<"&", "g", "t", ";">>
      [] c = "&"  -> <<"&", "a", "m", "p", ";">>
      [] c = "\"" -> <<"&", "q", "u", "o", "t", ";">>
      [] OTHER    -> <<c>>

escape_char(c) ==
    CASE c = "<"  -> <<"&", "l", "t", ";">>
      [] c = ">"  -> <<"&", "g", "t", ";">>
      [] c = "&"  -> <<"&", "a", "m", "p", ";">>
      [] c = "\"" -> <<"&", "q", "u", "o", "t", ";">>
      [] c = "'"  -> <<"&", "#", "3", "9", ";">>
      [] OTHER    -> <<c>>

RECURSIVE escape(_)
escape(s) == IF s = <<>> THEN <<>> ELSE escape_char(Head(s)) \o escape(Tail(s))

----------------------------------------------------------------------------
(* Lambdas.  A Data::Fun holds a closure; the model names the closures of  *)
(* tests::test_render_sections and tests::test_spec_lambdas, with the key  *)
(* `planet` shortened to `p`.                                              *)

\* uint::to_string, for the numbers below 100
Digit(d) == <<"0", "1", "2", "3", "4", "5", "6", "7", "8", "9">>[d + 1]
to_string(n) == IF n < 10 THEN <<Digit(n)>>
                ELSE <<Digit(n \div 10), Digit(n % 10)>>

\* (*f)(text): what the closure f returns for text.  The closure "count"
\* captures a counter, which is the number of its calls so far.
call(f, text) ==
    CASE f = "foo"      -> <<"f", "o", "o">>       \* |_text| "foo"
      [] f = "gt"       -> <<">">>                  \* |_text| ">"
      [] f = "expand"   -> <<"{", "{", "p", "}", "}">>
      [] f = "alt"      -> <<"|", "p", "|", "{", "{", "p", "}", "}">>
      [] f = "section"  -> IF text = <<"{", "{", "x", "}", "}">>
                           THEN <<"y", "e", "s">> ELSE <<"n", "o">>
      [] f = "wrap"     -> text \o <<"{", "{", "p", "}", "}">> \o text
      [] f = "alt_wrap" -> text \o <<"{", "{", "p", "}", "}", "|", "p", "|">>
                                \o text
      [] f = "under"    -> <<"_">> \o text \o <<"_">>
      [] f = "count"    ->
           to_string(Cardinality({i \in 1..Len(calls) : calls[i].f = f}) + 1)
      [] f = "include"  ->                        \* "{{>q}}[{{>d}}]"
           <<"{", "{", ">", "q", "}", "}", "[",
             "{", "{", ">", "d", "}", "}", "]">>
      [] OTHER          -> <<>>                     \* |_text| ""

\* the characters of a delimiter
Chars(tag) ==
    CASE tag = "{{" -> <<"{", "{">>
      [] tag = "}}" -> <<"}", "}">>
      [] tag = "|"  -> <<"|">>
      [] OTHER      -> <<>>

\* the first position at or after `from` where pat occurs in s, or 0
RECURSIVE index_of(_, _, _)
index_of(s, pat, from) ==
    IF from + Len(pat) - 1 > Len(s) THEN 0
    ELSE IF SubSeq(s, from, from + Len(pat) - 1) = pat THEN from
    ELSE index_of(s, pat, from + 1)

\* the path of a tag body: trimmed and split on "."; the names of the
\* model are one character long, and a lone "." is the empty path
IsNameChar(c) == c \notin {".", " "}
tag_path(body) == SelectSeq(body, IsNameChar)

\* a tag body without sigil is an escaped tag, with "&" an unescaped one
\* and with ">" a partial, which has no indent when it is not alone on its
\* line
compile_tag(body) ==
    IF body # <<>> /\ body[1] = "&" THEN UTag(tag_path(Tail(body)))
    ELSE IF Len(body) > 1 /\ body[1] = ">"
         THEN Partial(tag_path(Tail(body))[1], <<>>)
    ELSE ETag(tag_path(body))

\* the text up to the next open delimiter, the tag it opens, and the rest
RECURSIVE compile_from(_, _, _)
compile_from(src, o, c) ==
    LET i == index_of(src, o, 1)
        j == IF i = 0 THEN 0 ELSE index_of(src, c, i + Len(o))
    IN  IF src = <<>> THEN <<>>
        ELSE IF i = 0 \/ j = 0 THEN <<Text(src)>>
        ELSE (IF i > 1 THEN <<Text(SubSeq(src, 1, i - 1))>> ELSE <<>>)
               \o <<compile_tag(SubSeq(src, i + Len(o), j - 1))>>
               \o compile_from(SubSeq(src, j + Len(c), Len(src)), o, c)

\* the partial files under the template path of the Context: the file of
\* the partial d holds "D"
Files == [d |-> <<"D">>]

\* the names of the partial tags of a token sequence
RECURSIVE partial_names(_)
partial_names(tokens) ==
    IF tokens = <<>> THEN {}
    ELSE (IF Head(tokens).t = "Partial" THEN {Head(tokens).name} ELSE {})
           \cup partial_names(Tail(tokens))

\* Compiler::new_with(ctx, src, partials, otag, ctag).compile() on a source
\* of text, variable tags and partial tags: the tokens, and the partials
\* handed in together with those the compiler loaded for the partial tags
\* whose name was not among them
compile(src, partials, otag, ctag) ==
    LET tokens == compile_from(src, Chars(otag), Chars(ctag))
        loaded == (partial_names(tokens) \cap DOMAIN Files) \ DOMAIN partials
    IN  [tokens   |-> tokens,
         partials |-> [n \in DOMAIN partials \cup loaded |->
                         IF n \in DOMAIN partials THEN partials[n]
                         ELSE compile_from(Files[n], Chars("{{"),
                                           Chars("}}"))]]

\* RenderContext::render_fun: `let (tokens, _) = compiler.compile()`
render_fun(src, otag, ctag, f) ==
    compile(call(f, src), tmpl.partials, otag, ctag).tokens

\* the entry of `calls` for one call of render_fun
Call(f, text, otag, ctag) ==
    [f |-> f, text |-> text, otag |-> otag, ctag |-> ctag]

----------------------------------------------------------------------------
(* The outcome of each render_* function at one token, computed from the   *)
(* path, the scope stack and the indentation as the function's match       *)
(* computes it.  The actions below apply the outcome to the state.         *)

\* render_utag rendering nothing for a value that is neither Str nor Fun
render_utag_silent(path, stk, ind) ==
    LET r  == find(path, stk)
        no == [k |-> "ok", w |-> <<>>, tokens |-> <<>>, called |-> <<>>]
    IN  CASE r.k = "None"  -> no
          [] r.k = "Panic" -> [no EXCEPT !.k = "panic"]
          [] OTHER ->
               CASE r.v.t = "Str" -> [no EXCEPT !.w = ind \o r.v.s]
                 [] r.v.t = "Fun" ->
                      [k |-> "fun", w |-> ind,
                       tokens |-> render_fun(<<>>, "{{", "}}", r.v.f),
                       called |-> <<Call(r.v.f, <<>>, "{{", "}}")>>]
                 [] OTHER -> no

\* render_utag handing the lambda the delimiters of the enclosing section
render_utag_in_force(path, stk, ind) ==
    LET r  == find(path, stk)
        no == [k |-> "ok", w |-> <<>>, tokens |-> <<>>, called |-> <<>>]
        up == IF Len(frames) > 1
              THEN frames[Len(frames) - 1].tokens[frames[Len(frames) - 1].pc]
              ELSE Text(<<>>)
        otag == IF up.t = "Section" THEN up.otag ELSE "{{"
        ctag == IF up.t = "Section" THEN up.ctag ELSE "}}"
    IN  CASE r.k = "None"  -> no
          [] r.k = "Panic" -> [no EXCEPT !.k = "panic"]
          [] OTHER ->
               CASE r.v.t = "Str" -> [no EXCEPT !.w = ind \o r.v.s]
                 [] r.v.t = "Fun" ->
                      [k |-> "fun", w |-> ind,
                       tokens |-> render_fun(<<>>, otag, ctag, r.v.f),
                       called |-> <<Call(r.v.f, <<>>, otag, ctag)>>]
                 [] OTHER -> [no EXCEPT !.k = "panic", !.w = ind]

\* render_utag: `w` is what it writes itself; `k` is "ok" (returns),
\* "fun" (goes on to render `tokens`) or "panic"; `called` is the call
\* of render_fun it makes.
\* render_utag writing the value without the indent
render_utag_bare(path, stk, ind) ==
    LET r  == find(path, stk)
        no == [k |-> "ok", w |-> <<>>, tokens |-> <<>>, called |-> <<>>]
    IN  CASE r.k = "None"  -> no
          [] r.k = "Panic" -> [no EXCEPT !.k = "panic"]
          [] OTHER ->
               CASE r.v.t = "Str" -> [no EXCEPT !.w = r.v.s]
                 [] r.v.t = "Fun" ->
                      [k |-> "fun", w |-> <<>>,
                       tokens |-> render_fun(<<>>, "{{", "}}", r.v.f),
                       called |-> <<Call(r.v.f, <<>>, "{{", "}}")>>]
                 [] OTHER -> [no EXCEPT !.k = "panic", !.w = ind]

render_utag(path, stk, ind) ==
    LET r  == find(path, stk)
        no == [k |-> "ok", w |-> <<>>, tokens |-> <<>>, called |-> <<>>]
    IN  CASE r.k = "None"  -> no
          [] r.k = "Panic" -> [no EXCEPT !.k = "panic"]
          [] OTHER ->
               CASE r.v.t = "Str" -> [no EXCEPT !.w = ind \o r.v.s]
                 [] r.v.t = "Fun" ->
                      [k |-> "fun", w |-> ind,
                       tokens |-> render_fun(<<>>, "{{", "}}", r.v.f),
                       called |-> <<Call(r.v.f, <<>>, "{{", "}}")>>]
                 [] OTHER -> [no EXCEPT !.k = "panic", !.w = ind]

\* render_inverted_section without the arm for the empty Vec
render_inverted_section_no_vec(path, stk) ==
    LET r == find(path, stk)
    IN  CASE r.k = "None"  -> [k |-> "children"]
          [] r.k = "Panic" -> [k |-> "panic"]
          [] OTHER ->
               IF r.v.t = "Bool" /\ r.v.b = FALSE THEN [k |-> "children"]
               ELSE [k |-> "return"]

\* render_inverted_section: "children" when it goes on to
\* render(children), "return" when it returns early.
render_inverted_section(path, stk) ==
    LET r == find(path, stk)
    IN  CASE r.k = "None"  -> [k |-> "children"]
          [] r.k = "Panic" -> [k |-> "panic"]
          [] OTHER ->
               IF r.v.t = "Bool" /\ r.v.b = FALSE THEN [k |-> "children"]
               ELSE IF r.v.t = "Vec" /\ r.v.xs = <<>> THEN [k |-> "children"]
               ELSE [k |-> "return"]

\* render_section rendering the children for Bool(false) as for Bool(true)
render_section_any_bool(path, stk, src, otag, ctag) ==
    LET r == find(path, stk)
        no == [k |-> "none", v |-> Bool(FALSE), tokens |-> <<>>,
               called |-> <<>>]
    IN  CASE r.k = "None"  -> no
          [] r.k = "Panic" -> [no EXCEPT !.k = "panic"]
          [] OTHER ->
               CASE r.v.t = "Bool" ->
                      [no EXCEPT !.k = "children"]
                 [] r.v.t = "Vec" -> [no EXCEPT !.k = "vec", !.v = r.v]
                 [] r.v.t = "Map" -> [no EXCEPT !.k = "map", !.v = r.v]
                 [] r.v.t = "Fun" ->
                      [no EXCEPT
                         !.k = "fun",
                         !.tokens = render_fun(src, otag, ctag, r.v.f),
                         !.called = <<Call(r.v.f, src, otag, ctag)>>]
                 [] OTHER -> [no EXCEPT !.k = "panic"]

\* render_section handing the lambda the default delimiters, as render_utag
\* does, and not the delimiters of the section token
render_section_default_delims(path, stk, src, otag, ctag) ==
    LET r == find(path, stk)
        no == [k |-> "none", v |-> Bool(FALSE), tokens |-> <<>>,
               called |-> <<>>]
    IN  CASE r.k = "None"  -> no
          [] r.k = "Panic" -> [no EXCEPT !.k = "panic"]
          [] OTHER ->
               CASE r.v.t = "Bool" ->
                      IF r.v.b THEN [no EXCEPT !.k = "children"] ELSE no
                 [] r.v.t = "Vec" -> [no EXCEPT !.k = "vec", !.v = r.v]
                 [] r.v.t = "Map" -> [no EXCEPT !.k = "map", !.v = r.v]
                 [] r.v.t = "Fun" ->
                      [no EXCEPT
                         !.k = "fun",
                         !.tokens = render_fun(src, "{{", "}}", r.v.f),
                         !.called = <<Call(r.v.f, src, "{{", "}}")>>]
                 [] OTHER -> [no EXCEPT !.k = "panic"]

\* render_section with an arm rendering the children once for a Str
render_section_str_once(path, stk, src, otag, ctag) ==
    LET r == find(path, stk)
        no == [k |-> "none", v |-> Bool(FALSE), tokens |-> <<>>,
               called |-> <<>>]
    IN  CASE r.k = "None"  -> no
          [] r.k = "Panic" -> [no EXCEPT !.k = "panic"]
          [] OTHER ->
               CASE r.v.t = "Bool" ->
                      IF r.v.b THEN [no EXCEPT !.k = "children"] ELSE no
                 [] r.v.t = "Vec" -> [no EXCEPT !.k = "vec", !.v = r.v]
                 [] r.v.t = "Map" -> [no EXCEPT !.k = "map", !.v = r.v]
                 [] r.v.t = "Fun" ->
                      [no EXCEPT
                         !.k = "fun",
                         !.tokens = render_fun(src, otag, ctag, r.v.f),
                         !.called = <<Call(r.v.f, src, otag, ctag)>>]
                 [] r.v.t = "Str" -> [no EXCEPT !.k = "children"]
                 [] OTHER -> [no EXCEPT !.k = "panic"]

\* render_section: which arm of the match is taken, and the call of
\* render_fun it makes.
render_section(path, stk, src, otag, ctag) ==
    LET r == find(path, stk)
        no == [k |-> "none", v |-> Bool(FALSE), tokens |-> <<>>,
               called |-> <<>>]
    IN  CASE r.k = "None"  -> no
          [] r.k = "Panic" -> [no EXCEPT !.k = "panic"]
          [] OTHER ->
               CASE r.v.t = "Bool" ->
                      IF r.v.b THEN [no EXCEPT !.k = "children"] ELSE no
                 [] r.v.t = "Vec" -> [no EXCEPT !.k = "vec", !.v = r.v]
                 [] r.v.t = "Map" -> [no EXCEPT !.k = "map", !.v = r.v]
                 [] r.v.t = "Fun" ->
                      [no EXCEPT
                         !.k = "fun",
                         !.tokens = render_fun(src, otag, ctag, r.v.f),
                         !.called = <<Call(r.v.f, src, otag, ctag)>>]
                 [] OTHER -> [no EXCEPT !.k = "panic"]

\* render_partial adding the indent of a partial that is not in the mapping
render_partial_indent_missing(name, ind) ==
    IF name \in DOMAIN tmpl.partials
    THEN [k |-> "render", tokens |-> tmpl.partials[name],
          indent |-> indent \o ind]
    ELSE [k |-> "none", tokens |-> <<>>, indent |-> indent \o ind]

\* render_partial looking the name up in the partials the compiler of
\* render_fun returned, which hold the partials it loaded
render_partial_loaded(name, ind) ==
    IF name \in DOMAIN tmpl.partials
    THEN [k |-> "render", tokens |-> tmpl.partials[name],
          indent |-> indent \o ind]
    ELSE IF name \in DOMAIN Files
    THEN [k |-> "render",
          tokens |-> compile_from(Files[name], Chars("{{"), Chars("}}")),
          indent |-> indent \o ind]
    ELSE [k |-> "none", tokens |-> <<>>, indent |-> indent]

\* render_partial rendering the template itself for a partial that is
\* not in the mapping
render_partial_missing_self(name, ind) ==
    IF name \in DOMAIN tmpl.partials
    THEN [k |-> "render", tokens |-> tmpl.partials[name],
          indent |-> indent \o ind]
    ELSE [k |-> "render", tokens |-> tmpl.tokens, indent |-> indent]

\* render_partial: the lookup in template.partials and the new indent.
render_partial(name, ind) ==
    IF name \in DOMAIN tmpl.partials
    THEN [k |-> "render", tokens |-> tmpl.partials[name],
          indent |-> indent \o ind]
    ELSE [k |-> "none", tokens |-> <<>>, indent |-> indent]

----------------------------------------------------------------------------
(* The call stack.  A frame is one call of RenderContext::render:          *)
(*   tokens, pc : the slice iterated and the token being rendered          *)
(*   k          : the caller, i.e. what runs when render returns           *)
(*   vs, i      : render_section's `for v in vs.iter()` and its position   *)
(*   saved      : render_partial's local `indent` after the first swap     *)

Frame(tokens, k, vs, i, saved) ==
    [tokens |-> tokens, pc |-> 1, k |-> k, vs |-> vs, i |-> i, saved |-> saved]

Top == frames[Len(frames)]
Tok == Top.tokens[Top.pc]

\* render's loop is at a token of variant t
AtToken(t) ==
    /\ status = "running"
    /\ frames # <<>>
    /\ Top.pc <= Len(Top.tokens)
    /\ Tok.t = t

\* render returned to a caller of kind k
AtReturn(k) ==
    /\ status = "running"
    /\ frames # <<>>
    /\ Top.pc > Len(Top.tokens)
    /\ Top.k = k

Pop(s) == SubSeq(s, 1, Len(s) - 1)

\* render_token returned: the loop of render moves to the next token
NextToken(fs) == [fs EXCEPT ![Len(fs)].pc = @ + 1]

\* wr.write(bytes) on the current writer
Write(w, bytes) == [w EXCEPT ![Len(w)] = @ \o bytes]

----------------------------------------------------------------------------
(* RenderContext::render_token, one action per arm of its match.           *)

RenderText ==
    /\ AtToken("Text")
    /\ wr' = Write(wr, render_text(indent, Tok.text))
    /\ frames' = NextToken(frames)
    /\ UNCHANGED <<tmpl, data, stack, indent, status, pstart,
                 calls, outs, other, input, builder_vars>>

RenderUTag ==
    /\ AtToken("UTag")
    /\ LET o == render_utag(Tok.path, stack, indent)
       IN  /\ wr' = Write(wr, o.w)
           /\ status' = IF o.k = "panic" THEN "panic" ELSE status
           /\ frames' = CASE o.k = "ok"  -> NextToken(frames)
                          [] o.k = "fun" ->
                               Append(frames, Frame(o.tokens, "utag", <<>>, 0, <<>>))
                          [] OTHER       -> frames
           /\ calls' = calls \o o.called
    /\ UNCHANGED <<tmpl, data, stack, indent, pstart,
                 outs, other, input, builder_vars>>

\* render_etag runs render_utag on a fresh buffer `bytes`, then escapes
\* the buffer into wr.  When render_utag goes on to render a lambda's
\* tokens the buffer stays open until that render returns (ReturnETag);
\* when it panics the buffer is lost.
RenderETag ==
    /\ AtToken("ETag")
    /\ LET o == render_utag(Tok.path, stack, indent)
       IN  /\ wr' = CASE o.k = "ok"  -> Write(wr, escape(o.w))
                      [] o.k = "fun" -> Append(wr, o.w)
                      [] OTHER       -> wr
           /\ status' = IF o.k = "panic" THEN "panic" ELSE status
           /\ frames' = CASE o.k = "ok"  -> NextToken(frames)
                          [] o.k = "fun" ->
                               Append(frames, Frame(o.tokens, "etag", <<>>, 0, <<>>))
                          [] OTHER       -> frames
           /\ calls' = calls \o o.called
    /\ UNCHANGED <<tmpl, data, stack, indent, pstart,
                 outs, other, input, builder_vars>>

RenderInvertedSection ==
    /\ AtToken("Section")
    /\ Tok.inv
    /\ LET o == render_inverted_section(Tok.path, stack)
       IN  /\ status' = IF o.k = "panic" THEN "panic" ELSE status
           /\ frames' = CASE o.k = "children" ->
                               Append(frames,
                                      Frame(Tok.children, "inverted", <<>>, 0, <<>>))
                          [] o.k = "return"   -> NextToken(frames)
                          [] OTHER            -> frames
    /\ UNCHANGED <<tmpl, data, stack, indent, wr, pstart,
                 calls, outs, other, input, builder_vars>>

RenderSection ==
    /\ AtToken("Section")
    /\ ~Tok.inv
    /\ LET o == render_section(Tok.path, stack, Tok.src, Tok.otag, Tok.ctag)
       IN  /\ status' = IF o.k = "panic" THEN "panic" ELSE status
           /\ stack' = CASE o.k = "vec" /\ o.v.xs # <<>> ->
                              Append(stack, o.v.xs[1])
                         [] o.k = "map" -> Append(stack, o.v)
                         [] OTHER       -> stack
           /\ frames' =
                CASE o.k = "children" ->
                       Append(frames, Frame(Tok.children, "bool", <<>>, 0, <<>>))
                  [] o.k = "vec" /\ o.v.xs # <<>> ->
                       Append(frames, Frame(Tok.children, "vec", o.v.xs, 1, <<>>))
                  [] o.k = "map" ->
                       Append(frames, Frame(Tok.children, "map", <<>>, 0, <<>>))
                  [] o.k = "fun" ->
                       Append(frames, Frame(o.tokens, "fun", <<>>, 0, <<>>))
                  [] o.k = "panic" -> frames
                  [] OTHER -> NextToken(frames)
           /\ calls' = calls \o o.called
    /\ UNCHANGED <<tmpl, data, indent, wr, pstart,
                 outs, other, input, builder_vars>>

\* RenderPartial taking the tokens out of template.partials (remove for get)
RenderPartialTake ==
    /\ AtToken("Partial")
    /\ ~(Tok.name \in DOMAIN tmpl.partials /\ Len(frames) >= MaxDepth)
    /\ LET o == render_partial(Tok.name, Tok.ind)
       IN  /\ indent' = o.indent
           /\ frames' = IF o.k = "render"
                        THEN Append(frames,
                                    Frame(o.tokens, "partial", <<>>, 0, indent))
                        ELSE NextToken(frames)
           /\ pstart' = IF o.k = "render"
                        THEN Append(pstart, [w |-> Len(wr),
                                             at |-> Len(wr[Len(wr)])])
                        ELSE pstart
           /\ tmpl' = IF o.k = "render"
                      THEN [tmpl EXCEPT !.partials =
                              [n \in DOMAIN tmpl.partials \ {Tok.name} |->
                                 tmpl.partials[n]]]
                      ELSE tmpl
    /\ UNCHANGED <<data, stack, wr, status,
                 calls, outs, other, input, builder_vars>>

\* render_partial calls render on the partial's tokens; a call the
\* thread's stack has no room for ends the process, and the render does
\* not return
RenderPartial ==
    /\ AtToken("Partial")
    /\ LET o == render_partial(Tok.name, Tok.ind)
       IN  IF o.k = "render" /\ Len(frames) >= MaxDepth
           THEN /\ status' = "overflow"
                /\ UNCHANGED <<indent, frames, pstart>>
           ELSE /\ indent' = o.indent
                /\ frames' = IF o.k = "render"
                             THEN Append(frames,
                                         Frame(o.tokens, "partial", <<>>, 0,
                                               indent))
                             ELSE NextToken(frames)
                /\ pstart' = IF o.k = "render"
                             THEN Append(pstart, [w |-> Len(wr),
                                                  at |-> Len(wr[Len(wr)])])
                             ELSE pstart
                /\ status' = status
    /\ UNCHANGED <<tmpl, data, stack, wr,
                 calls, outs, other, input, builder_vars>>

----------------------------------------------------------------------------
(* render returns: what each caller does after its call of render.        *)

\* render_data returns
ReturnRenderData ==
    /\ AtReturn("render_data")
    /\ status' = "done"
    /\ frames' = <<>>
    /\ outs' = Append(outs, wr[1])
    /\ UNCHANGED <<tmpl, data, stack, indent, wr, pstart,
                 calls, other, input, builder_vars>>

\* render_inverted_section, the Bool(true) and Fun arms of render_section
\* and the Fun arm of a render_utag called by render_token: nothing more
ReturnPlain ==
    /\ \/ AtReturn("inverted")
       \/ AtReturn("bool")
       \/ AtReturn("fun")
       \/ AtReturn("utag")
    /\ frames' = NextToken(Pop(frames))
    /\ UNCHANGED <<tmpl, data, stack, indent, wr, status, pstart,
                 calls, outs, other, input, builder_vars>>

\* the Fun arm of a render_utag called by render_etag: escape the buffer
ReturnETag ==
    /\ AtReturn("etag")
    /\ wr' = Write(Pop(wr), escape(wr[Len(wr)]))
    /\ frames' = NextToken(Pop(frames))
    /\ UNCHANGED <<tmpl, data, stack, indent, status, pstart,
                 calls, outs, other, input, builder_vars>>

\* ReturnVec leaving the loop after the first element
ReturnVecOnce ==
    /\ AtReturn("vec")
    /\ stack' = Pop(stack)
    /\ frames' = NextToken(Pop(frames))
    /\ UNCHANGED <<tmpl, data, indent, wr, status, pstart,
                 calls, outs, other, input, builder_vars>>

\* the Vec arm of render_section: stack.pop(), then the next element
ReturnVec ==
    /\ AtReturn("vec")
    /\ IF Top.i < Len(Top.vs)
       THEN /\ stack' = Append(Pop(stack), Top.vs[Top.i + 1])
            /\ frames' = [frames EXCEPT ![Len(frames)].pc = 1,
                                        ![Len(frames)].i = @ + 1]
       ELSE /\ stack' = Pop(stack)
            /\ frames' = NextToken(Pop(frames))
    /\ UNCHANGED <<tmpl, data, indent, wr, status, pstart,
                 calls, outs, other, input, builder_vars>>

\* ReturnMap without the stack.pop()
ReturnMapNoPop ==
    /\ AtReturn("map")
    /\ frames' = NextToken(Pop(frames))
    /\ UNCHANGED <<tmpl, data, stack, indent, wr, status, pstart,
                 calls, outs, other, input, builder_vars>>

\* the Map arm of render_section: stack.pop()
ReturnMap ==
    /\ AtReturn("map")
    /\ stack' = Pop(stack)
    /\ frames' = NextToken(Pop(frames))
    /\ UNCHANGED <<tmpl, data, indent, wr, status, pstart,
                 calls, outs, other, input, builder_vars>>

\* ReturnPartial without the second mem::swap
ReturnPartialKeep ==
    /\ AtReturn("partial")
    /\ frames' = NextToken(Pop(frames))
    /\ pstart' = Pop(pstart)
    /\ UNCHANGED <<tmpl, data, stack, indent, wr, status,
                 calls, outs, other, input, builder_vars>>

\* render_partial: the second mem::swap puts the saved indent back
ReturnPartial ==
    /\ AtReturn("partial")
    /\ indent' = Top.saved
    /\ frames' = NextToken(Pop(frames))
    /\ pstart' = Pop(pstart)
    /\ UNCHANGED <<tmpl, data, stack, wr, status,
                 calls, outs, other, input, builder_vars>>

----------------------------------------------------------------------------
(* The Encoder (src/src/encoder.rs).  An Encodable is a record tagged by   *)
(* what its `encode` calls first: emit_str, emit_bool, emit_uint,          *)
(* emit_nil, emit_option, emit_enum, emit_struct, emit_seq or emit_map.    *)
(* `enc` is Encoder.data; the result of an emit is the Result it returns   *)
(* and the Encoder.data it leaves.                                         *)

EStr(s)     == [e |-> "str", s |-> s]
EBool(b)    == [e |-> "bool", b |-> b]
EUint(n)    == [e |-> "uint", n |-> n]
ENil        == [e |-> "nil"]
EOption(vs) == [e |-> "option", vs |-> vs]       \* None: <<>>, Some(v): <<v>>
EEnum       == [e |-> "enum"]
EStruct(fs) == [e |-> "struct", fs |-> fs]       \* fields [name, v], in order
ESeq(xs)    == [e |-> "seq", xs |-> xs]
EMap(kvs)   == [e |-> "map", kvs |-> kvs]        \* entries [k, v], in order

Ok(enc)     == [r |-> "Ok", data |-> enc]
Err(e, enc) == [r |-> e, data |-> enc]

\* the String key of a HashMap entry: the names of the model are one
\* character long
KeyOf(s) == IF Len(s) = 1 THEN s[1] ELSE "?"

\* HashMap::insert
Insert(m, k, v) == (k :> v) @@ m

\* emit_option_none pushing Bool(false) for the absent value
emit_scalar_none_false(v, enc) ==
    CASE v.e = "str"    -> Ok(Append(enc, Str(v.s)))
      [] v.e = "bool"   -> Ok(Append(enc, Bool(v.b)))
      [] v.e = "uint"   -> Ok(Append(enc, Str(to_string(v.n))))
      [] v.e = "option" -> IF v.vs = <<>> THEN Ok(Append(enc, Bool(FALSE)))
                           ELSE Err("UnsupportedType", enc)
      [] OTHER          -> Err("UnsupportedType", enc)

\* emit_str, emit_bool, emit_uint, emit_nil, emit_option, emit_enum
emit_scalar(v, enc) ==
    CASE v.e = "str"    -> Ok(Append(enc, Str(v.s)))
      [] v.e = "bool"   -> Ok(Append(enc, Bool(v.b)))
      [] v.e = "uint"   -> Ok(Append(enc, Str(to_string(v.n))))
      [] OTHER          -> Err("UnsupportedType", enc)

RECURSIVE emit(_, _), emit_struct_fields(_, _, _), emit_seq_elts(_, _, _),
          emit_map_elts(_, _, _)

\* the closure of emit_struct: emit_struct_field for each field from i
emit_struct_fields(fs, i, enc) ==
    IF i > Len(fs) THEN Ok(enc)
    ELSE IF enc = <<>> \/ enc[Len(enc)].t # "Map"
         THEN Err("UnsupportedType", enc)
    ELSE LET m == enc[Len(enc)].m
             f == emit(fs[i].v, Pop(enc))
         IN  IF f.r # "Ok" THEN f
             ELSE IF f.data = <<>> THEN Err("UnsupportedType", f.data)
             ELSE emit_struct_fields(fs, i + 1,
                    Append(Pop(f.data),
                           Map(Insert(m, fs[i].name, f.data[Len(f.data)]))))

\* emit_seq_elt pushing the Vec back without popping the element first
emit_seq_elts_keep(xs, i, enc) ==
    IF i > Len(xs) THEN Ok(enc)
    ELSE IF enc = <<>> \/ enc[Len(enc)].t # "Vec"
         THEN Err("UnsupportedType", enc)
    ELSE LET v == enc[Len(enc)].xs
             f == emit(xs[i], Pop(enc))
         IN  IF f.r # "Ok" THEN f
             ELSE IF f.data = <<>> THEN Err("UnsupportedType", f.data)
             ELSE emit_seq_elts(xs, i + 1,
                    Append(f.data, Vec(Append(v, f.data[Len(f.data)]))))

\* the closure of emit_seq: emit_seq_elt for each element from i
emit_seq_elts(xs, i, enc) ==
    IF i > Len(xs) THEN Ok(enc)
    ELSE IF enc = <<>> \/ enc[Len(enc)].t # "Vec"
         THEN Err("UnsupportedType", enc)
    ELSE LET v == enc[Len(enc)].xs
             f == emit(xs[i], Pop(enc))
         IN  IF f.r # "Ok" THEN f
             ELSE IF f.data = <<>> THEN Err("UnsupportedType", f.data)
             ELSE emit_seq_elts(xs, i + 1,
                    Append(Pop(f.data), Vec(Append(v, f.data[Len(f.data)]))))

\* the closure of emit_map: emit_map_elt_key, then emit_map_elt_val, for
\* each entry from i
emit_map_elts(kvs, i, enc) ==
    IF i > Len(kvs) THEN Ok(enc)
    ELSE LET key == emit(kvs[i].k, enc)
         IN  IF key.r # "Ok" THEN key
             ELSE IF key.data = <<>> THEN Err("MissingElements", key.data)
             ELSE IF key.data[Len(key.data)].t # "Str"
                  THEN Err("KeyIsNotString", key.data)
             ELSE LET k   == key.data[Len(key.data)].s
                      e1  == Pop(key.data)
                      val == emit(kvs[i].v, Pop(e1))
                  IN  IF e1 = <<>> \/ e1[Len(e1)].t # "Map"
                      THEN [r |-> "panic", data |-> e1]
                      ELSE IF val.r # "Ok" THEN val
                      ELSE IF val.data = <<>>
                           THEN [r |-> "panic", data |-> val.data]
                      ELSE emit_map_elts(kvs, i + 1,
                             Append(Pop(val.data),
                                    Map(Insert(e1[Len(e1)].m, KeyOf(k),
                                               val.data[Len(val.data)]))))

\* value.encode(&mut encoder)
emit(v, enc) ==
    CASE v.e = "struct" -> emit_struct_fields(v.fs, 1, Append(enc, Map(<<>>)))
      [] v.e = "seq"    -> emit_seq_elts(v.xs, 1, Append(enc, Vec(<<>>)))
      [] v.e = "map"    -> emit_map_elts(v.kvs, 1, Append(enc, Map(<<>>)))
      [] OTHER          -> emit_scalar(v, enc)

\* encoder::encode: Ok with the one Data left in Encoder.data, or the Err
encode(v) ==
    LET r == emit(v, <<>>)
    IN  IF r.r # "Ok" THEN [r |-> r.r, v |-> Absent]
        ELSE IF Len(r.data) # 1 THEN [r |-> "panic", v |-> Absent]
        ELSE [r |-> "Ok", v |-> r.data[1]]

----------------------------------------------------------------------------
(* The entry points.                                                       *)

\* Template::render_data called again on the same template and Data, after
\* the call before it returned: a new RenderContext, a new stack holding
\* the root, a new writer
RenderData ==
    /\ status = "done"
    /\ input = Absent
    /\ other = NoCall
    /\ Len(outs) < MaxRenders
    /\ stack' = <<data>>
    /\ indent' = <<>>
    /\ frames' = <<Frame(tmpl.tokens, "render_data", <<>>, 0, <<>>)>>
    /\ wr' = << <<>> >>
    /\ status' = "running"
    /\ pstart' = <<>>
    /\ UNCHANGED <<tmpl, data, calls, outs, other, input, builder_vars>>

\* Template::render: encode the data, then render_data on the Data; an
\* Err of the encoder is returned before anything is rendered
Render ==
    /\ status = "render"
    /\ LET r == encode(input)
       IN  IF r.r = "Ok"
           THEN /\ data' = r.v
                /\ stack' = <<r.v>>
                /\ frames' = <<Frame(tmpl.tokens, "render_data", <<>>, 0, <<>>)>>
                /\ status' = "running"
           ELSE /\ status' = r.r
                /\ UNCHANGED <<data, stack, frames>>
    /\ UNCHANGED <<tmpl, indent, wr, pstart,
                 calls, outs, other, input, builder_vars>>

Next ==
    \/ Render
    \/ RenderData
    \/ RenderText
    \/ RenderETag
    \/ RenderUTag
    \/ RenderInvertedSection
    \/ RenderSection
    \/ RenderPartial
    \/ ReturnRenderData
    \/ ReturnPlain
    \/ ReturnETag
    \/ ReturnVec
    \/ ReturnMap
    \/ ReturnPartial

----------------------------------------------------------------------------
(* The inputs of render_data: a compiled template and a root Data.         *)

SeqsUpTo(S, n) == UNION {[1..k -> S] : k \in 0..n}

\* a compiled template
Template(tokens, partials) == [tokens |-> tokens, partials |-> partials]

\* a HashMap holding key k only when v is not the marker Absent
Opt(k, v) == IF v.t = "Absent" THEN <<>> ELSE (k :> v)

\* "0{{#a}}...{{/a}}5" and "0{{^a}}...{{/a}}5" over every value of `a`:
\* the templates of tests::test_render_sections and
\* tests::test_render_inverted_sections, and "{{.}}" as children.
ElemVals ==
    { Map(<<>>), Map([n |-> Str(<<"a">>)]), Map([n |-> Str(<<"<", "b", ">">>)]),
      Str(<<"x">>), Bool(TRUE) }

SectionVals ==
    { Bool(TRUE), Bool(FALSE), Str(<<"x">>), Fun("foo"),
      Map(<<>>), Map([n |-> Str(<<"a">>)]) }
      \cup { Vec(xs) : xs \in SeqsUpTo(ElemVals, MaxListLen) }

SectionBodies ==
    { [children |-> <<Text(<<"1", " ">>), ETag(<<"n">>), Text(<<" ", "3">>)>>,
       src |-> <<"1", " ", "{", "{", "n", "}", "}", " ", "3">>],
      [children |-> <<UTag(<<>>)>>,
       src |-> <<"{", "{", "{", ".", "}", "}", "}">>] }

SectionCases ==
    { [tmpl |-> Template(<<Text(<<"0">>),
                           Section(<<"a">>, inv, b.children, "{{", b.src, "}}"),
                           Text(<<"5">>)>>, <<>>),
       data |-> Map(Opt("a", v))] :
      inv \in BOOLEAN, b \in SectionBodies, v \in SectionVals \cup {Absent} }

\* path resolution: every path over the keys a, b against nested tables,
\* at stack depths 1, 2 and 3
Paths == SeqsUpTo({"a", "b"}, MaxPathLen)

Leaves == { Str(<<"x">>), Str(<<"y">>) }
Tables(vals) ==
    { Map(Opt("a", va) @@ Opt("b", vb)) :
      va \in vals \cup {Absent}, vb \in vals \cup {Absent} }

FindTemplates(p) ==
    { Template(<<UTag(p),
                 Section(<<"b">>, FALSE, <<UTag(p)>>, "{{", <<>>, "}}")>>, <<>>),
      Template(<<Section(<<"b">>, FALSE,
                    <<Section(<<"a">>, FALSE, <<ETag(p)>>, "{{", <<>>, "}}")>>,
                    "{{", <<>>, "}}")>>, <<>>) }

FindCases ==
    { [tmpl |-> t, data |-> d] :
      t \in UNION { FindTemplates(p) : p \in Paths },
      d \in Tables(Leaves \cup Tables(Leaves)) }

\* escaping: "{{a}}" and "{{{a}}}" over every short string of the
\* characters render_etag matches, a plain one and a newline
EscChars == { "<", ">", "&", "\"", "'", "a", "\n" }

EscapeCases ==
    { [tmpl |-> Template(<<tag>>, <<>>), data |-> Map([a |-> Str(s)])] :
      tag \in { ETag(<<"a">>), UTag(<<"a">>) },
      s \in SeqsUpTo(EscChars, MaxStrLen) }

\* partials and indentation: a template including the partial p under an
\* indent, p including q under a further indent, and a partial that is not
\* in the mapping; the Text chunks range over every short text of "x" and
\* newlines
TextChunks == SeqsUpTo({"x", "\n"}, MaxTextLen)

PartialTemplate(chunk, ind) ==
    Template(
      <<Text(<<"h", "\n">>), Partial("p", ind), Partial("missing", ind),
        Text(chunk)>>,
      [p |-> <<Text(chunk), UTag(<<"a">>),
               Section(<<"s">>, FALSE, <<Text(chunk), ETag(<<"a">>)>>,
                       "{{", <<>>, "}}"),
               Partial("q", <<" ", " ">>), Partial("missing", <<" ">>),
               Text(<<"e", "\n">>)>>,
       q |-> <<ETag(<<"a">>), Text(chunk)>>])

PartialCases ==
    { [tmpl |-> PartialTemplate(chunk, ind),
       data |-> Map([a |-> v, s |-> Bool(TRUE)])] :
      chunk \in TextChunks, ind \in { <<>>, <<" ">> },
      v \in { Str(<<"v">>), Str(<<"v", "\n", "w">>), Fun("foo"), Bool(TRUE) } }

\* lambdas: a closure bound to a variable tag, an escaped tag, a section
\* and an inverted section; a section handing its source "{{x}}" to the
\* closure; and, after "{{=| |=}}", tags and a section under the
\* delimiters "|" and "|", inside a section that pushes a Table
Closures ==
    { "foo", "gt", "empty", "expand", "alt", "section", "wrap", "alt_wrap",
      "under", "count", "include" }

LambdaTemplates ==
    { <<UTag(<<"l">>), ETag(<<"l">>),
        Section(<<"l">>, FALSE, <<Text(<<"x">>)>>, "{{", <<"x">>, "}}"),
        Section(<<"l">>, TRUE, <<Text(<<"x">>)>>, "{{", <<"x">>, "}}")>>,
      <<Section(<<"l">>, FALSE, <<ETag(<<"x">>)>>, "{{",
                <<"{", "{", "x", "}", "}">>, "}}")>>,
      <<Section(<<"s">>, FALSE, <<UTag(<<"l">>), ETag(<<"l">>)>>, "|",
                <<"|", "&", "l", "|", "|", "l", "|">>, "|"),
        Section(<<"l">>, FALSE, <<Text(<<"-">>)>>, "|", <<"-">>, "|")>> }

LambdaCases ==
    { [tmpl |-> Template(tokens, <<>>),
       data |-> Map([l |-> Fun(f), p |-> Str(<<"E">>),
                     s |-> Map([p |-> Str(<<"M">>)])])] :
      tokens \in LambdaTemplates, f \in Closures }

\* partials that include themselves: p including p inside a section on
\* `s`, p including p outright, and p and q including each other; `s`
\* ranges over the values that end the recursion and those that do not
RecursiveTemplates ==
    { Template(<<Text(<<"r">>), Partial("p", <<>>)>>,
               [p |-> <<Text(<<"x">>),
                        Section(<<"s">>, FALSE, <<Partial("p", ind)>>,
                                "{{", <<>>, "}}")>>]) :
      ind \in { <<>>, <<" ">> } }
    \cup
    { Template(<<Text(<<"r">>), Partial("p", <<>>)>>,
               [p |-> <<Text(<<"x">>), Partial("p", <<" ">>)>>]),
      Template(<<Text(<<"r">>), Partial("p", <<>>)>>,
               [p |-> <<Text(<<"x">>), Partial("q", <<>>)>>,
                q |-> <<Text(<<"y">>), Partial("p", <<>>)>>]) }

RecursiveVals ==
    { Absent, Bool(FALSE), Bool(TRUE), Vec(<<>>), Map(<<>>),
      Map([s |-> Bool(FALSE)]), Map([s |-> Map([s |-> Vec(<<>>)])]),
      Vec(<<Map([s |-> Bool(FALSE)]), Map([s |-> Vec(<<>>)])>>) }

RecursiveCases ==
    { [tmpl |-> t, data |-> Map(Opt("s", v))] :
      t \in RecursiveTemplates, v \in RecursiveVals }

\* lambdas whose output holds partial tags: "{{{l}}}-{{#l}}x{{/l}}" with
\* the partial q in the template's mapping, d in a file only; q is text
\* and a tag, or the tag that calls the lambda again
LambdaPartials ==
    { <<>>,
      [q |-> <<Text(<<"Q">>), ETag(<<"p">>)>>],
      [q |-> <<UTag(<<"l">>)>>] }

LambdaPartialCases ==
    { [tmpl |-> Template(<<UTag(<<"l">>), Text(<<"-">>),
                           Section(<<"l">>, FALSE, <<Text(<<"x">>)>>, "{{",
                                   <<"x">>, "}}")>>, ps),
       data |-> Map([l |-> Fun(f), p |-> Str(<<"E">>)])] :
      ps \in LambdaPartials, f \in {"include", "expand", "foo"} }

Cases == SectionCases \cup FindCases \cup EscapeCases \cup PartialCases
             \cup LambdaCases \cup RecursiveCases \cup LambdaPartialCases

\* Template::render: "0{{#a}}{{n}}{{/a}}{{b}}5" over a struct whose field
\* `a` is a sequence of structs and whose field `b` is a scalar, a value
\* the Encoder does not support among them at either depth; a map whose
\* key is or is not a string; and a value that is no struct at all
EncScalars ==
    { EStr(<<"x">>), EUint(41), EBool(TRUE), ENil, EOption(<<>>),
      EOption(<<EStr(<<"x">>)>>), EEnum }

EncElems == { EStruct(<<[name |-> "n", v |-> v]>>) : v \in EncScalars }

Encodables ==
    { EStruct(<<[name |-> "a", v |-> ESeq(xs)], [name |-> "b", v |-> b]>>) :
      xs \in SeqsUpTo(EncElems, MaxListLen), b \in EncScalars }
    \cup { EMap(<<[k |-> k, v |-> v]>>) :
           k \in { EStr(<<"b">>), EUint(7), EBool(TRUE) }, v \in EncScalars }
    \cup EncScalars

RenderCases ==
    { [tmpl |-> Template(
                  <<Text(<<"0">>),
                    Section(<<"a">>, FALSE, <<ETag(<<"n">>)>>, "{{",
                            <<"{", "{", "n", "}", "}">>, "}}"),
                    ETag(<<"b">>), Text(<<"5">>)>>, <<>>),
       input |-> e] : e \in Encodables }

----------------------------------------------------------------------------
(* Template::render_data: a fresh RenderContext (empty indent), the stack  *)
(* holding the root alone, and the call of render on the template's tokens.*)

InitRenderData ==
    \E c \in Cases :
        /\ tmpl = c.tmpl
        /\ data = c.data
        /\ stack = <<c.data>>
        /\ indent = <<>>
        /\ frames = <<Frame(c.tmpl.tokens, "render_data", <<>>, 0, <<>>)>>
        /\ wr = << <<>> >>
        /\ status = "running"
        /\ pstart = <<>>
        /\ calls = <<>>
        /\ outs = <<>>
        /\ other = NoCall
        /\ input = Absent
        /\ BuildersIdle

\* Template::render has been called: nothing is encoded or rendered yet
InitRender ==
    \E c \in RenderCases :
        /\ tmpl = c.tmpl
        /\ data = Absent
        /\ stack = <<>>
        /\ indent = <<>>
        /\ frames = <<>>
        /\ wr = << <<>> >>
        /\ status = "render"
        /\ pstart = <<>>
        /\ calls = <<>>
        /\ outs = <<>>
        /\ other = NoCall
        /\ input = c.input
        /\ BuildersIdle

Init == InitRenderData \/ InitRender

Spec == Init /\ [][Next]_vars

\* a call of render or render_data is in progress: it has a next step
InProgress == status \in {"render", "running"}

\* render runs on the calling thread without waiting for anything, so a
\* call in progress takes its next step: weak fairness of Next for the
\* calls in progress, with the enabling condition written out (the caller
\* need not call render_data again)
FairSpec == Spec /\ ([]<>(~InProgress) \/ []<><<Next>>_vars)

----------------------------------------------------------------------------
(* Two render_data calls on one Template and one Data, run by two threads. *)
(* render_data takes &self and &Data and builds its own RenderContext, so  *)
(* each call has its own stack, indent and writer; the threads interleave  *)
(* between tokens. The variables stack .. pstart are the call the running  *)
(* thread is in, `other` is the call of the suspended thread.              *)

\* d holds no Fun
RECURSIVE CallbackFree(_)
CallbackFree(d) ==
    CASE d.t = "Fun" -> FALSE
      [] d.t = "Vec" -> \A i \in 1..Len(d.xs) : CallbackFree(d.xs[i])
      [] d.t = "Map" -> \A k \in DOMAIN d.m : CallbackFree(d.m[k])
      [] OTHER       -> TRUE

\* a render_data call: its RenderContext, its writer and where it stands
Context(st, ind, fr, w, s, ps) ==
    [stack |-> st, indent |-> ind, frames |-> fr, wr |-> w, status |-> s,
     pstart |-> ps]

\* the call as render_data starts it
NewContext ==
    Context(<<data>>, <<>>,
            <<Frame(tmpl.tokens, "render_data", <<>>, 0, <<>>)>>,
            << <<>> >>, "running", <<>>)

\* after a render_data call that ran alone has returned, two threads call
\* render_data on the same Template and Data
RenderDataConcurrently ==
    /\ status = "done"
    /\ input = Absent
    /\ other = NoCall
    /\ Len(outs) = 1
    /\ stack' = NewContext.stack
    /\ indent' = NewContext.indent
    /\ frames' = NewContext.frames
    /\ wr' = NewContext.wr
    /\ status' = NewContext.status
    /\ pstart' = NewContext.pstart
    /\ other' = NewContext
    /\ UNCHANGED <<tmpl, data, calls, outs, input, builder_vars>>

\* Switch with one indent for both calls
SwitchSharedIndent ==
    /\ other.status = "running"
    /\ status \in {"running", "done", "panic"}
    /\ other' = Context(stack, indent, frames, wr, status, pstart)
    /\ stack' = other.stack
    /\ frames' = other.frames
    /\ wr' = other.wr
    /\ status' = other.status
    /\ pstart' = other.pstart
    /\ UNCHANGED <<tmpl, data, indent, calls, outs, input, builder_vars>>

\* the scheduler suspends the running thread between two tokens, or after
\* its call has ended, and resumes the other one: each thread keeps its
\* own RenderContext and writer
Switch ==
    /\ other.status = "running"
    /\ status \in {"running", "done", "panic"}
    /\ other' = Context(stack, indent, frames, wr, status, pstart)
    /\ stack' = other.stack
    /\ indent' = other.indent
    /\ frames' = other.frames
    /\ wr' = other.wr
    /\ status' = other.status
    /\ pstart' = other.pstart
    /\ UNCHANGED <<tmpl, data, calls, outs, input, builder_vars>>

\* the steps of render on a Data holding no Fun (ReturnETag follows a
\* closure call only)
RenderStep ==
    \/ RenderText
    \/ RenderETag
    \/ RenderUTag
    \/ RenderInvertedSection
    \/ RenderSection
    \/ RenderPartial
    \/ ReturnRenderData
    \/ ReturnPlain
    \/ ReturnVec
    \/ ReturnMap
    \/ ReturnPartial

NextConcurrent ==
    \/ RenderDataConcurrently
    \/ Switch
    \/ RenderText
    \/ RenderETag
    \/ RenderUTag
    \/ RenderInvertedSection
    \/ RenderSection
    \/ RenderPartial
    \/ ReturnRenderData
    \/ ReturnPlain
    \/ ReturnVec
    \/ ReturnMap
    \/ ReturnPartial

\* the section and partial templates over the Data that hold no Fun
ConcurrentCases ==
    { c \in SectionCases \cup PartialCases : CallbackFree(c.data) }

InitConcurrent ==
    \E c \in ConcurrentCases :
        /\ tmpl = c.tmpl
        /\ data = c.data
        /\ stack = <<c.data>>
        /\ indent = <<>>
        /\ frames = <<Frame(c.tmpl.tokens, "render_data", <<>>, 0, <<>>)>>
        /\ wr = << <<>> >>
        /\ status = "running"
        /\ pstart = <<>>
        /\ calls = <<>>
        /\ outs = <<>>
        /\ other = NoCall
        /\ input = Absent
        /\ BuildersIdle

ConcurrentSpec == InitConcurrent /\ [][NextConcurrent]_vars

----------------------------------------------------------------------------
(* impl PartialEq for Data (src/src/data.rs).  The comparison of two Maps  *)
(* visits the entries in the order of the HashMap, which is not fixed, so  *)
(* eq gives the set of the outcomes the comparison can have: "true",       *)
(* "false" or "panic".                                                     *)

RECURSIVE eq_fun_false(_, _), eq_vec_fun_false(_, _, _)

\* eq with the catch-all arm taken for two closures as well
eq_vec_fun_false(xs, ys, i) ==
    IF i > Len(xs) THEN {"true"}
    ELSE LET o == eq_fun_false(xs[i], ys[i])
         IN  (o \ {"true"})
               \cup (IF "true" \in o THEN eq_vec_fun_false(xs, ys, i + 1)
                     ELSE {})

eq_fun_false(a, b) ==
    CASE a.t = "Str" /\ b.t = "Str"   -> {IF a.s = b.s THEN "true" ELSE "false"}
      [] a.t = "Bool" /\ b.t = "Bool" -> {IF a.b = b.b THEN "true" ELSE "false"}
      [] a.t = "Vec" /\ b.t = "Vec"   ->
           IF Len(a.xs) # Len(b.xs) THEN {"false"}
           ELSE eq_vec_fun_false(a.xs, b.xs, 1)
      [] a.t = "Map" /\ b.t = "Map"   ->
           IF Cardinality(DOMAIN a.m) # Cardinality(DOMAIN b.m) THEN {"false"}
           ELSE LET o(k) == IF k \in DOMAIN b.m
                            THEN eq_fun_false(a.m[k], b.m[k]) ELSE {"false"}
                IN  (IF \A k \in DOMAIN a.m : "true" \in o(k)
                     THEN {"true"} ELSE {})
                      \cup { r \in {"false", "panic"} :
                             \E k \in DOMAIN a.m : r \in o(k) }
      [] OTHER                        -> {"false"}

RECURSIVE eq(_, _), eq_vec(_, _, _)

\* Vec<Data> == Vec<Data>: element by element, until one pair differs
eq_vec(xs, ys, i) ==
    IF i > Len(xs) THEN {"true"}
    ELSE LET o == eq(xs[i], ys[i])
         IN  (o \ {"true"})
               \cup (IF "true" \in o THEN eq_vec(xs, ys, i + 1) ELSE {})

\* Data::eq
eq(a, b) ==
    CASE a.t = "Str" /\ b.t = "Str"   -> {IF a.s = b.s THEN "true" ELSE "false"}
      [] a.t = "Bool" /\ b.t = "Bool" -> {IF a.b = b.b THEN "true" ELSE "false"}
      [] a.t = "Vec" /\ b.t = "Vec"   ->
           IF Len(a.xs) # Len(b.xs) THEN {"false"} ELSE eq_vec(a.xs, b.xs, 1)
      [] a.t = "Map" /\ b.t = "Map"   ->
           IF Cardinality(DOMAIN a.m) # Cardinality(DOMAIN b.m) THEN {"false"}
           ELSE LET o(k) == IF k \in DOMAIN b.m
                            THEN eq(a.m[k], b.m[k]) ELSE {"false"}
                IN  (IF \A k \in DOMAIN a.m : "true" \in o(k)
                     THEN {"true"} ELSE {})
                      \cup { r \in {"false", "panic"} :
                             \E k \in DOMAIN a.m : r \in o(k) }
      [] a.t = "Fun" /\ b.t = "Fun"   -> {"panic"}
      [] OTHER                        -> {"false"}

----------------------------------------------------------------------------
(* MapBuilder and VecBuilder (src/src/builder.rs).  `builders` holds the   *)
(* builders alive: the outermost one and, above it, the builders handed to *)
(* the closures of insert_vec, insert_map, push_vec and push_map that have *)
(* not returned yet, each with the key its result goes under.  `prog` is   *)
(* the chain of calls still to be made, as tests::test_builders writes it. *)

Builder(t, m, xs, key) == [t |-> t, m |-> m, xs |-> xs, key |-> key]
MapBuilder(key) == Builder("MapBuilder", <<>>, <<>>, key)   \* MapBuilder::new
VecBuilder(key) == Builder("VecBuilder", <<>>, <<>>, key)   \* VecBuilder::new

\* MapBuilder::build, VecBuilder::build
build(b) == IF b.t = "MapBuilder" THEN Map(b.m) ELSE Vec(b.xs)

Op(op, key, v) == [op |-> op, key |-> key, v |-> v]

TopBuilder == builders[Len(builders)]

\* the next call is `op`, made on a builder of type t
AtOp(op, t) ==
    /\ prog # <<>>
    /\ Head(prog).op = op
    /\ builders # <<>>
    /\ TopBuilder.t = t

\* data.insert(key, value) / data.push(value) on the innermost builder
Inserted(key, value) ==
    [builders EXCEPT ![Len(builders)].m = Insert(@, key, value)]

Pushed(value) ==
    [builders EXCEPT ![Len(builders)].xs = Append(@, value)]

\* MapBuilder::insert: the value is encoded; an Err is returned, and the
\* chain of the test ends in the panic of unwrap()
MapInsert ==
    /\ AtOp("insert", "MapBuilder")
    /\ LET r == encode(Head(prog).v)
       IN  IF r.r = "Ok"
           THEN /\ builders' = Inserted(Head(prog).key, r.v)
                /\ prog' = Tail(prog)
                /\ cmp' = cmp
           ELSE /\ builders' = <<>>
                /\ prog' = <<>>
                /\ cmp' = "panic"
    /\ UNCHANGED <<render_vars, built, want, rhs>>

InsertStr ==
    /\ AtOp("insert_str", "MapBuilder")
    /\ builders' = Inserted(Head(prog).key, Str(Head(prog).v))
    /\ prog' = Tail(prog)
    /\ UNCHANGED <<render_vars, built, want, rhs, cmp>>

InsertBool ==
    /\ AtOp("insert_bool", "MapBuilder")
    /\ builders' = Inserted(Head(prog).key, Bool(Head(prog).v))
    /\ prog' = Tail(prog)
    /\ UNCHANGED <<render_vars, built, want, rhs, cmp>>

InsertFn ==
    /\ AtOp("insert_fn", "MapBuilder")
    /\ builders' = Inserted(Head(prog).key, Fun(Head(prog).v))
    /\ prog' = Tail(prog)
    /\ UNCHANGED <<render_vars, built, want, rhs, cmp>>

\* insert_vec / insert_map: f(VecBuilder::new()) / f(MapBuilder::new())
InsertVec ==
    /\ AtOp("insert_vec", "MapBuilder")
    /\ builders' = Append(builders, VecBuilder(Head(prog).key))
    /\ prog' = Tail(prog)
    /\ UNCHANGED <<render_vars, built, want, rhs, cmp>>

InsertMap ==
    /\ AtOp("insert_map", "MapBuilder")
    /\ builders' = Append(builders, MapBuilder(Head(prog).key))
    /\ prog' = Tail(prog)
    /\ UNCHANGED <<render_vars, built, want, rhs, cmp>>

\* VecBuilder::push
VecPush ==
    /\ AtOp("push", "VecBuilder")
    /\ LET r == encode(Head(prog).v)
       IN  IF r.r = "Ok"
           THEN /\ builders' = Pushed(r.v)
                /\ prog' = Tail(prog)
                /\ cmp' = cmp
           ELSE /\ builders' = <<>>
                /\ prog' = <<>>
                /\ cmp' = "panic"
    /\ UNCHANGED <<render_vars, built, want, rhs>>

\* PushStr putting the value in front
PushStrFront ==
    /\ AtOp("push_str", "VecBuilder")
    /\ builders' = [builders EXCEPT
                      ![Len(builders)].xs = <<Str(Head(prog).v)>> \o @]
    /\ prog' = Tail(prog)
    /\ UNCHANGED <<render_vars, built, want, rhs, cmp>>

PushStr ==
    /\ AtOp("push_str", "VecBuilder")
    /\ builders' = Pushed(Str(Head(prog).v))
    /\ prog' = Tail(prog)
    /\ UNCHANGED <<render_vars, built, want, rhs, cmp>>

PushBool ==
    /\ AtOp("push_bool", "VecBuilder")
    /\ builders' = Pushed(Bool(Head(prog).v))
    /\ prog' = Tail(prog)
    /\ UNCHANGED <<render_vars, built, want, rhs, cmp>>

PushFn ==
    /\ AtOp("push_fn", "VecBuilder")
    /\ builders' = Pushed(Fun(Head(prog).v))
    /\ prog' = Tail(prog)
    /\ UNCHANGED <<render_vars, built, want, rhs, cmp>>

PushVec ==
    /\ AtOp("push_vec", "VecBuilder")
    /\ builders' = Append(builders, VecBuilder(""))
    /\ prog' = Tail(prog)
    /\ UNCHANGED <<render_vars, built, want, rhs, cmp>>

PushMap ==
    /\ AtOp("push_map", "VecBuilder")
    /\ builders' = Append(builders, MapBuilder(""))
    /\ prog' = Tail(prog)
    /\ UNCHANGED <<render_vars, built, want, rhs, cmp>>

\* the closure f returns its builder: builder.build() is inserted under
\* the key, or pushed, into the builder of the caller
ClosureReturns ==
    /\ prog # <<>>
    /\ Head(prog).op = "return"
    /\ Len(builders) > 1
    /\ LET value == build(TopBuilder)
           outer == Pop(builders)
       IN  builders' =
             IF outer[Len(outer)].t = "MapBuilder"
             THEN [outer EXCEPT ![Len(outer)].m =
                                    Insert(@, TopBuilder.key, value)]
             ELSE [outer EXCEPT ![Len(outer)].xs = Append(@, value)]
    /\ prog' = Tail(prog)
    /\ UNCHANGED <<render_vars, built, want, rhs, cmp>>

\* the outermost build()
Build ==
    /\ prog # <<>>
    /\ Head(prog).op = "build"
    /\ Len(builders) = 1
    /\ built' = build(TopBuilder)
    /\ builders' = <<>>
    /\ prog' = Tail(prog)
    /\ UNCHANGED <<render_vars, want, rhs, cmp>>

\* `built == rhs`, as assert_eq! evaluates it
Compare ==
    /\ prog = <<>>
    /\ built # Absent
    /\ cmp = "none"
    /\ \E r \in eq(built, rhs) : cmp' = r
    /\ UNCHANGED <<render_vars, prog, builders, built, want, rhs>>

NextBuilder ==
    \/ MapInsert
    \/ InsertStr
    \/ InsertBool
    \/ InsertFn
    \/ InsertVec
    \/ InsertMap
    \/ VecPush
    \/ PushStr
    \/ PushBool
    \/ PushFn
    \/ PushVec
    \/ PushMap
    \/ ClosureReturns
    \/ Build
    \/ Compare

----------------------------------------------------------------------------
(* The inputs of the builders: a Data `want`, constructed directly, and    *)
(* the chain of builder calls that tests::test_builders would write for    *)
(* it: insert_str("a", ..) for a Str, insert("a", &41u) for the Str "41",  *)
(* insert_vec("a", |builder| ..) for a Vec, and so on.                     *)

RECURSIVE MapProg(_, _), VecProg(_, _), map_op(_, _), vec_op(_)

map_op(key, v) ==
    CASE v.t = "Str" ->
           IF v.s = <<"4", "1">> THEN <<Op("insert", key, EUint(41))>>
           ELSE <<Op("insert_str", key, v.s)>>
      [] v.t = "Bool" -> <<Op("insert_bool", key, v.b)>>
      [] v.t = "Fun"  -> <<Op("insert_fn", key, v.f)>>
      [] v.t = "Vec"  -> <<Op("insert_vec", key, Absent)>>
                           \o VecProg(v.xs, 1) \o <<Op("return", "", Absent)>>
      [] OTHER        -> <<Op("insert_map", key, Absent)>>
                           \o MapProg(v.m, <<"a", "b">>)
                           \o <<Op("return", "", Absent)>>

vec_op(v) ==
    CASE v.t = "Str" ->
           IF v.s = <<"4", "1">> THEN <<Op("push", "", EUint(41))>>
           ELSE <<Op("push_str", "", v.s)>>
      [] v.t = "Bool" -> <<Op("push_bool", "", v.b)>>
      [] v.t = "Fun"  -> <<Op("push_fn", "", v.f)>>
      [] v.t = "Vec"  -> <<Op("push_vec", "", Absent)>>
                           \o VecProg(v.xs, 1) \o <<Op("return", "", Absent)>>
      [] OTHER        -> <<Op("push_map", "", Absent)>>
                           \o MapProg(v.m, <<"a", "b">>)
                           \o <<Op("return", "", Absent)>>

\* the inserts for the keys ks that m holds, in the order of ks
MapProg(m, ks) ==
    IF ks = <<>> THEN <<>>
    ELSE (IF Head(ks) \in DOMAIN m THEN map_op(Head(ks), m[Head(ks)])
          ELSE <<>>) \o MapProg(m, Tail(ks))

\* the pushes for the elements of xs from i, in order
VecProg(xs, i) ==
    IF i > Len(xs) THEN <<>> ELSE vec_op(xs[i]) \o VecProg(xs, i + 1)

Program(v) ==
    (IF v.t = "Map" THEN MapProg(v.m, <<"a", "b">>) ELSE VecProg(v.xs, 1))
      \o <<Op("build", "", Absent)>>

\* the same chain after an insert_str under the key `a`, which the chain
\* then inserts again
Overwriting(v) ==
    IF v.t = "Map" /\ "a" \in DOMAIN v.m
    THEN <<Op("insert_str", "a", <<"o">>)>> \o Program(v)
    ELSE Program(v)

BuildLeaves ==
    { Str(<<"a">>), Str(<<"4", "1">>), Bool(TRUE), Fun("foo") }

BuildNested ==
    BuildLeaves
      \cup { Map(<<>>), Map([a |-> Str(<<"a">>)]), Vec(<<>>),
             Vec(<<Str(<<"a">>), Map([a |-> Str(<<"4", "1">>)])>>) }

BuildVals ==
    Tables(BuildNested)
      \cup { Vec(xs) : xs \in SeqsUpTo(BuildNested, MaxListLen) }

\* the right-hand sides compared with what was built, besides `want`
RhsVals ==
    { Map(<<>>), Vec(<<>>), Map([a |-> Fun("foo")]), Map([a |-> Str(<<"a">>)]),
      Vec(<<Str(<<"a">>)>>), Vec(<<Fun("gt")>>) }

\* the Data compared without a builder
EqVals ==
    { Str(<<"a">>), Str(<<"b">>), Bool(TRUE), Bool(FALSE), Fun("foo"),
      Fun("gt"), Vec(<<>>), Vec(<<Fun("foo")>>),
      Vec(<<Str(<<"a">>), Fun("foo")>>), Vec(<<Str(<<"b">>), Fun("foo")>>),
      Map(<<>>), Map([a |-> Fun("foo"), b |-> Str(<<"a">>)]),
      Map([a |-> Fun("foo"), b |-> Str(<<"b">>)]) }

\* no template is rendered
RenderIdle ==
    /\ tmpl = Template(<<>>, <<>>)
    /\ data = Absent
    /\ stack = <<>>
    /\ indent = <<>>
    /\ frames = <<>>
    /\ wr = << <<>> >>
    /\ status = "idle"
    /\ pstart = <<>>
    /\ calls = <<>>
    /\ outs = <<>>
    /\ other = NoCall
    /\ input = Absent

\* MapBuilder::new() or VecBuilder::new(), with the chain still to run
InitBuild ==
    \E w \in BuildVals, r \in RhsVals \cup {Absent}, again \in BOOLEAN :
        /\ want = w
        /\ rhs = IF r = Absent THEN w ELSE r
        /\ prog = IF again THEN Overwriting(w) ELSE Program(w)
        /\ builders = <<IF w.t = "Map" THEN MapBuilder("") ELSE VecBuilder("")>>
        /\ built = Absent
        /\ cmp = "none"
        /\ RenderIdle

\* two Data constructed directly
InitCompare ==
    \E l \in EqVals, r \in EqVals :
        /\ want = l
        /\ built = l
        /\ rhs = r
        /\ prog = <<>>
        /\ builders = <<>>
        /\ cmp = "none"
        /\ RenderIdle

InitBuilder == InitBuild \/ InitCompare

BuilderSpec == InitBuilder /\ [][NextBuilder]_vars

----------------------------------------------------------------------------
(* Helpers of the properties below.                                        *)

\* the HTML entity the specification gives for a character, or the
\* character itself
HtmlEntity(c) ==
    IF c = "<" THEN <<"&", "l", "t", ";">>
    ELSE IF c = ">" THEN <<"&", "g", "t", ";">>
    ELSE IF c = "&" THEN <<"&", "a", "m", "p", ";">>
    ELSE IF c = "\"" THEN <<"&", "q", "u", "o", "t", ";">>
    ELSE IF c = "'" THEN <<"&", "#", "3", "9", ";">>
    ELSE <<c>>

\* s with every character replaced by its entity, from the last character
RECURSIVE HtmlEscaped(_)
HtmlEscaped(s) ==
    IF Len(s) = 0 THEN <<>>
    ELSE HtmlEscaped(SubSeq(s, 1, Len(s) - 1)) \o HtmlEntity(s[Len(s)])

\* a step of render() that calls render(children) once on a new frame and
\* changes nothing else
CallsChildren(children) ==
    /\ Len(frames') = Len(frames) + 1
    /\ SubSeq(frames', 1, Len(frames)) = frames
    /\ frames'[Len(frames')].tokens = children
    /\ frames'[Len(frames')].pc = 1
    /\ wr' = wr
    /\ indent' = indent
    /\ status' = "running"

\* a step that leaves the token without having written or pushed anything
SkipsToken ==
    /\ frames' = NextToken(frames)
    /\ wr' = wr
    /\ stack' = stack
    /\ indent' = indent
    /\ status' = "running"

\* the token whose rendering called the topmost frame
Caller == frames[Len(frames) - 1].tokens[frames[Len(frames) - 1].pc]

\* the section templates "0{{#a}}..{{/a}}5" / "0{{^a}}..{{/a}}5"
IsSectionCase ==
    /\ Len(tmpl.tokens) = 3
    /\ tmpl.tokens[1] = Text(<<"0">>)
    /\ tmpl.tokens[2].t = "Section"
    /\ tmpl.tokens[2].path = <<"a">>

----------------------------------------------------------------------------
(* C1: a non-inverted section over a List of k elements renders its        *)
(* children exactly k times, in list order, the i-th time with the i-th    *)
(* element pushed on top of the scope stack; the output is the             *)
(* concatenation of the k renderings, and an empty List writes nothing.    *)

\* what the children "1 {{n}} 3" write against a Table element, and what
\* the children "{{.}}" write against a Text element
C1_Child(children, e) ==
    IF Len(children) = 3
    THEN <<"1", " ">>
           \o (IF "n" \in DOMAIN e.m THEN HtmlEscaped(e.m["n"].s) ELSE <<>>)
           \o <<" ", "3">>
    ELSE e.s

C1_Fits(children, e) ==
    IF Len(children) = 3 THEN e.t = "Map" ELSE e.t = "Str"

RECURSIVE C1_Concat(_, _, _)
C1_Concat(children, vs, i) ==
    IF i > Len(vs) THEN <<>>
    ELSE C1_Child(children, vs[i]) \o C1_Concat(children, vs, i + 1)

\* the output of a finished render of "0{{#a}}..{{/a}}5" over a List
C1_Output ==
    ( /\ status = "done"
      /\ IsSectionCase
      /\ ~tmpl.tokens[2].inv
      /\ "a" \in DOMAIN data.m
      /\ data.m["a"].t = "Vec"
      /\ \A i \in 1..Len(data.m["a"].xs) :
            C1_Fits(tmpl.tokens[2].children, data.m["a"].xs[i]) )
    => wr = << <<"0">>
                 \o C1_Concat(tmpl.tokens[2].children, data.m["a"].xs, 1)
                 \o <<"5">> >>

\* during the i-th rendering the i-th element is the frame pushed
C1_Pushed ==
    (status = "running" /\ frames # <<>> /\ Top.k = "vec"
        /\ (Top.pc = 1 \/ Top.pc > Len(Top.tokens)))
    => /\ Top.i \in 1..Len(Top.vs)
       /\ stack # <<>>
       /\ stack[Len(stack)] = Top.vs[Top.i]
       /\ Caller.t = "Section" /\ ~Caller.inv
       /\ find(Caller.path, Pop(stack)) = Some(Vec(Top.vs))
       /\ Top.tokens = Caller.children

\* the section token starts the first rendering, or skips an empty List
C1_Enter ==
    LET r == find(Tok.path, stack)
    IN  (AtToken("Section") /\ ~Tok.inv /\ r.k = "Some" /\ r.v.t = "Vec")
        => IF r.v.xs = <<>>
           THEN SkipsToken
           ELSE /\ CallsChildren(Tok.children)
                /\ stack' = Append(stack, r.v.xs[1])
                /\ frames'[Len(frames')].i = 1

\* the end of the i-th rendering pops the element and starts rendering
\* i + 1, or leaves the section after rendering k
C1_Loop ==
    AtReturn("vec")
    => IF Top.i < Len(Top.vs)
       THEN /\ stack' = Append(Pop(stack), Top.vs[Top.i + 1])
            /\ frames' = [frames EXCEPT ![Len(frames)].pc = 1,
                                        ![Len(frames)].i = Top.i + 1]
            /\ wr' = wr
       ELSE /\ stack' = Pop(stack)
            /\ frames' = NextToken(Pop(frames))
            /\ wr' = wr

\* C1: a section over a List of k elements renders its children k times,
\* in order, each time with that element on top of the stack, and the
\* output is the concatenation of the k renderings.
C1_ListSection ==
    [](C1_Output /\ C1_Pushed) /\ [][C1_Enter /\ C1_Loop]_vars

\* "0{{#a}}1 {{n}} 3{{/a}}5" over [{n: "a"}, {n: "<b>"}] has rendered
C1_Witness ==
    /\ status = "done"
    /\ IsSectionCase
    /\ data = Map([a |-> Vec(<<Map([n |-> Str(<<"a">>)]),
                               Map([n |-> Str(<<"<", "b", ">">>)])>>)])
    /\ wr = << <<"0", "1", " ", "a", " ", "3",
                 "1", " ", "&", "l", "t", ";", "b", "&", "g", "t", ";", " ", "3",
                 "5">> >>

----------------------------------------------------------------------------
(* C2: an inverted section renders its children, once and against the      *)
(* unchanged scope stack, if and only if its path resolves to not-found,   *)
(* Boolean(false) or an empty List; for every other value it writes        *)
(* nothing.                                                                *)

C2_Falsy(r) ==
    \/ r.k = "None"
    \/ r.k = "Some" /\ r.v.t = "Bool" /\ ~r.v.b
    \/ r.k = "Some" /\ r.v.t = "Vec" /\ Len(r.v.xs) = 0

C2_Enter ==
    LET r == find(Tok.path, stack)
    IN  (AtToken("Section") /\ Tok.inv /\ r.k # "Panic")
        => IF C2_Falsy(r)
           THEN CallsChildren(Tok.children) /\ stack' = stack
           ELSE SkipsToken

\* the children are rendered once: their end leaves the section
C2_Once ==
    AtReturn("inverted")
    => /\ frames' = NextToken(Pop(frames))
       /\ wr' = wr
       /\ stack' = stack

\* the output of a finished render of "0{{^a}}1 {{n}} 3{{/a}}5"
C2_Output ==
    (status = "done" /\ IsSectionCase /\ tmpl.tokens[2].inv
        /\ Len(tmpl.tokens[2].children) = 3)
    => wr = IF C2_Falsy(IF "a" \in DOMAIN data.m THEN Some(data.m["a"]) ELSE None)
            THEN << <<"0", "1", " ", " ", "3", "5">> >>
            ELSE << <<"0", "5">> >>

\* C2: an inverted section renders its children once, on the unchanged
\* stack, exactly for not-found, Boolean(false) and the empty List, and
\* writes nothing otherwise.
C2_InvertedSection == []C2_Output /\ [][C2_Enter /\ C2_Once]_vars

\* "0{{^a}}1 {{n}} 3{{/a}}5" over an empty List has rendered its children
C2_Witness ==
    /\ status = "done"
    /\ IsSectionCase
    /\ tmpl.tokens[2].inv
    /\ data = Map([a |-> Vec(<<>>)])
    /\ wr = << <<"0", "1", " ", " ", "3", "5">> >>

----------------------------------------------------------------------------
(* C3 as stated: for every value bound at the path (or none), exactly one  *)
(* of the section and the inverted section renders its children.           *)

\* render_section goes on to render(children) at least once
C3_SectionRenders(tok, stk) ==
    LET o == render_section(tok.path, stk, tok.src, tok.otag, tok.ctag)
    IN  \/ o.k \in {"children", "map"}
        \/ o.k = "vec" /\ Len(o.v.xs) > 0

C3_InvertedRenders(tok, stk) ==
    render_inverted_section(tok.path, stk).k = "children"

C3_ExactlyOne(tok, stk) ==
    C3_SectionRenders(tok, stk) # C3_InvertedRenders(tok, stk)

\* C3 as stated: at every section token exactly one of the section and
\* the inverted section would render the children.
C3_Original ==
    (AtToken("Section") /\ find(Tok.path, stack).k # "Panic")
    => C3_ExactlyOne(Tok, stack)

(* C3 amended: exactly one of the two renders its children when the path   *)
(* is not found or resolves to a Boolean, a List or a Table; for a Text    *)
(* (the section panics) and for a Callback (the section renders the        *)
(* lambda's tokens in place of the children) neither does.                 *)
C3_Complement ==
    LET r == find(Tok.path, stack)
    IN  (AtToken("Section") /\ r.k # "Panic")
        => IF r.k = "None" \/ r.v.t \in {"Bool", "Vec", "Map"}
           THEN C3_ExactlyOne(Tok, stack)
           ELSE /\ ~C3_SectionRenders(Tok, stack)
                /\ ~C3_InvertedRenders(Tok, stack)

\* an inverted section is rendering its children for an empty List, for
\* which the section renders nothing
C3_Witness ==
    /\ status = "running"
    /\ Len(frames) > 1
    /\ Top.k = "inverted"
    /\ find(Caller.path, stack) = Some(Vec(<<>>))
    /\ ~C3_SectionRenders(Caller, stack)

----------------------------------------------------------------------------
(* C4: find anchors a non-empty path at the innermost frame that is a      *)
(* Table holding the first segment and walks the other segments through    *)
(* nested Tables of that anchor only: a missing segment or a non-Table met *)
(* on the way gives not-found even when an outer frame resolves the whole  *)
(* path.  An empty path gives the top of the stack.                        *)

C4_Anchors(key, stk) ==
    { i \in 1..Len(stk) : stk[i].t = "Map" /\ key \in DOMAIN stk[i].m }

C4_Innermost(S) == CHOOSE i \in S : \A j \in S : j <= i

\* the value n segments below v, each step through a Table
RECURSIVE C4_Reach(_, _, _)
C4_Reach(v, parts, n) ==
    IF n = 0 THEN Some(v)
    ELSE LET up == C4_Reach(v, parts, n - 1)
         IN  IF up.k = "Some" /\ up.v.t = "Map" /\ parts[n] \in DOMAIN up.v.m
             THEN Some(up.v.m[parts[n]])
             ELSE None

C4_Resolve(path, stk) ==
    IF Len(path) = 0 THEN Some(stk[Len(stk)])
    ELSE LET A == C4_Anchors(path[1], stk)
         IN  IF A = {} THEN None
             ELSE C4_Reach(stk[C4_Innermost(A)].m[path[1]],
                           Tail(path), Len(path) - 1)

\* the frames above the anchor, which find scans, are Tables
C4_ScansTables(path, stk) ==
    \A i \in 1..Len(stk) :
        (Len(path) > 0 /\ \A j \in C4_Anchors(path[1], stk) : j < i)
        => stk[i].t = "Map"

\* C4: find gives the declarative resolution (innermost anchor, walk
\* through Tables only, top of the stack for the empty path) whenever the
\* frames it scans are Tables.
C4_Find ==
    (status = "running" /\ frames # <<>> /\ Top.pc <= Len(Top.tokens)
        /\ Tok.t \in {"ETag", "UTag", "Section"}
        /\ C4_ScansTables(Tok.path, stack))
    => find(Tok.path, stack) = C4_Resolve(Tok.path, stack)

\* "{{{a.b}}}{{#b}}{{{a.b}}}{{/b}}": inside the section the tag wrote
\* nothing, because the pushed table holds an `a` without `b`, although the
\* root resolves a.b, as the first tag wrote
C4_Witness ==
    /\ status = "running"
    /\ Len(frames) = 2
    /\ Len(stack) = 2
    /\ Top.pc = 2
    /\ Top.tokens[1] = UTag(<<"a", "b">>)
    /\ find(<<"a", "b">>, stack) = None
    /\ find(<<"a", "b">>, <<stack[1]>>) = Some(Str(<<"x">>))
    /\ "a" \in DOMAIN stack[2].m
    /\ wr = << <<"x">> >>

----------------------------------------------------------------------------
(* C5 as stated: a variable tag whose path is not found, or resolves to a  *)
(* Boolean, a List or a Table, writes nothing and the render continues     *)
(* with the following tokens.                                              *)

C5_AtTag == AtToken("ETag") \/ AtToken("UTag")

\* C5 as stated: a tag that is not found or resolves to a Boolean, a List
\* or a Table is skipped without output.
C5_Original ==
    [][ LET r == find(Tok.path, stack)
        IN  (C5_AtTag /\ (r.k = "None"
                            \/ (r.k = "Some" /\ r.v.t \in {"Bool", "Vec", "Map"})))
            => SkipsToken ]_vars

(* C5 amended: a variable tag whose path is not found writes nothing and   *)
(* the render continues; a path that resolves to a Boolean, a List or a    *)
(* Table panics, after an unescaped tag has written the indentation        *)
(* prefix and before an escaped tag has written anything.                  *)
C5_NotFound ==
    (C5_AtTag /\ find(Tok.path, stack).k = "None") => SkipsToken

C5_Unexpected ==
    LET r == find(Tok.path, stack)
    IN  (C5_AtTag /\ r.k = "Some" /\ r.v.t \in {"Bool", "Vec", "Map"})
        => /\ status' = "panic"
           /\ frames' = frames
           /\ stack' = stack
           /\ wr' = IF Tok.t = "UTag" THEN Write(wr, indent) ELSE wr

\* C5 amended: not found is skipped without output; Boolean, List and
\* Table panic.
C5_VariableTag == [][C5_NotFound /\ C5_Unexpected]_vars

\* "{{{a}}}" inside a partial indented by one blank, `a` a Boolean: the
\* tag wrote the blank and panicked
C5_Witness ==
    /\ status = "panic"
    /\ Tok.t = "UTag"
    /\ find(Tok.path, stack) = Some(Bool(TRUE))
    /\ indent = <<" ">>
    /\ wr = << <<"h", "\n", " ", "x", " ">> >>

----------------------------------------------------------------------------
(* C6: an escaped tag writes what the unescaped tag would write for the    *)
(* same path and stack, with < > & " ' replaced by their entities and      *)
(* every other character copied in order; the output holds no raw < > "    *)
(* or '.                                                                   *)

C6_NoRaw(s) == \A i \in 1..Len(s) : s[i] \notin {"<", ">", "\"", "'"}

\* what the step has appended to the current writer
C6_Appended ==
    SubSeq(wr'[Len(wr)], Len(wr[Len(wr)]) + 1, Len(wr'[Len(wr)]))

C6_Tag ==
    LET u == render_utag(Tok.path, stack, indent)
    IN  /\ (AtToken("UTag") /\ u.k = "ok") => wr' = Write(wr, u.w)
        /\ (AtToken("ETag") /\ u.k = "ok")
           => /\ wr' = Write(wr, HtmlEscaped(u.w))
              /\ C6_NoRaw(C6_Appended)

\* the lambda's rendering, buffered, is escaped when the render returns
C6_Buffered ==
    AtReturn("etag")
    => /\ wr' = Write(Pop(wr), HtmlEscaped(wr[Len(wr)]))
       /\ C6_NoRaw(SubSeq(wr'[Len(wr')], Len(wr[Len(wr')]) + 1,
                          Len(wr'[Len(wr')])))

\* the outputs of "{{a}}" and "{{{a}}}" over the same Text
C6_Output ==
    (status = "done" /\ Len(tmpl.tokens) = 1 /\ "a" \in DOMAIN data.m
        /\ data.m["a"].t = "Str")
    => /\ tmpl.tokens = <<UTag(<<"a">>)>> => wr = << data.m["a"].s >>
       /\ tmpl.tokens = <<ETag(<<"a">>)>>
          => wr = << HtmlEscaped(data.m["a"].s) >> /\ C6_NoRaw(wr[1])

\* C6: the escaped tag writes the entity-substituted image of what the
\* unescaped tag writes, and no raw < > " or '.
C6_Escaping == []C6_Output /\ [][C6_Tag /\ C6_Buffered]_vars

\* "{{a}}" over a = "<'" has rendered
C6_Witness ==
    /\ status = "done"
    /\ tmpl.tokens = <<ETag(<<"a">>)>>
    /\ data = Map([a |-> Str(<<"<", "'">>)])
    /\ wr = << <<"&", "l", "t", ";", "&", "#", "3", "9", ";">> >>

----------------------------------------------------------------------------
(* C7: a Partial token whose name is not in the template's partial mapping *)
(* is a no-op: nothing is written, nothing panics, and the scope stack and *)
(* the indentation prefix stay as they are.                                *)

C7_MissingPartial ==
    [][ (AtToken("Partial") /\ Tok.name \notin DOMAIN tmpl.partials)
        => SkipsToken /\ pstart' = pstart ]_vars

\* inside the partial p, indented by one blank, the render has gone past
\* {{>missing}}
C7_Witness ==
    /\ status = "running"
    /\ Len(frames) = 2
    /\ Top.k = "partial"
    /\ Top.pc > 1 /\ Top.pc <= Len(Top.tokens) + 1
    /\ Top.tokens[Top.pc - 1].t = "Partial"
    /\ Top.tokens[Top.pc - 1].name \notin DOMAIN tmpl.partials
    /\ indent = <<" ">>

----------------------------------------------------------------------------
(* C8: while the tokens of a partial are rendered the indentation prefix   *)
(* is the prefix in force at the Partial token followed by the token's own *)
(* indent, i.e. the indents of the enclosing partials, outermost first;    *)
(* after render_partial it is what it was before, and it is empty outside  *)
(* every partial.                                                          *)

\* the indents of the Partial tokens being expanded by frames 2..j
RECURSIVE C8_Prefix(_)
C8_Prefix(j) ==
    IF j < 2 THEN <<>>
    ELSE C8_Prefix(j - 1)
           \o (IF frames[j].k = "partial"
               THEN frames[j - 1].tokens[frames[j - 1].pc].ind
               ELSE <<>>)

\* C8: the indent is the concatenation of the indents of the partials
\* being expanded, outermost first, and empty outside every partial.
C8_Indent ==
    /\ indent = C8_Prefix(Len(frames))
    /\ \A j \in 2..Len(frames) :
          frames[j].k = "partial" => frames[j].saved = C8_Prefix(j - 1)
    /\ (\A j \in 1..Len(frames) : frames[j].k # "partial") => indent = <<>>

\* rendering q (indent of two blanks) inside p (indent of one blank)
C8_Witness ==
    /\ status = "running"
    /\ Len(frames) = 3
    /\ frames[2].k = "partial" /\ frames[3].k = "partial"
    /\ frames[3].saved = <<" ">>
    /\ indent = <<" ", " ", " ">>
    /\ Top.pc = 2

----------------------------------------------------------------------------
(* C9 as stated: under a non-empty cumulative indentation prefix I every   *)
(* line of the output of a partial, except the lines that are a lone       *)
(* newline, begins with I, for all tokens of the partial and all Values,   *)
(* Text values holding newlines included.                                  *)

\* every line of out is a lone newline or begins with I
C9_LinesBegin(out, I) ==
    \A p \in 1..Len(out) :
        (p = 1 \/ out[p - 1] = "\n")
        => \/ out[p] = "\n"
           \/ /\ p + Len(I) - 1 <= Len(out)
              /\ SubSeq(out, p, p + Len(I) - 1) = I

\* the cumulative prefixes of the partials being expanded, outermost first
RECURSIVE C9_Prefixes(_)
C9_Prefixes(j) ==
    IF j < 2 THEN <<>>
    ELSE C9_Prefixes(j - 1)
           \o (IF frames[j].k = "partial" THEN <<C8_Prefix(j)>> ELSE <<>>)

\* what the m-th partial being expanded has written so far
C9_Written(m) ==
    SubSeq(wr[pstart[m].w], pstart[m].at + 1, Len(wr[pstart[m].w]))

C9_AllIndented ==
    \A m \in 1..Len(pstart) :
        LET I == C9_Prefixes(Len(frames))[m]
        IN  Len(I) > 0 => C9_LinesBegin(C9_Written(m), I)

\* C9 as stated: every line a partial writes under a prefix I is a lone
\* newline or begins with I, for all Values.
C9_Original == C9_AllIndented

(* C9 amended: the same, for all Values in which no Text holds a newline   *)
(* character: render_utag writes a Text value verbatim after one prefix,   *)
(* so the lines after a newline inside a Text value are not indented.      *)
RECURSIVE C9_NoNewline(_)
C9_NoNewline(d) ==
    CASE d.t = "Str" -> \A i \in 1..Len(d.s) : d.s[i] # "\n"
      [] d.t = "Vec" -> \A i \in 1..Len(d.xs) : C9_NoNewline(d.xs[i])
      [] d.t = "Map" -> \A k \in DOMAIN d.m : C9_NoNewline(d.m[k])
      [] OTHER       -> TRUE

\* C9 amended: the same when no Text value of the root Data holds a
\* newline.
C9_PartialIndent == C9_NoNewline(data) => C9_AllIndented

\* the partial p, indented by one blank and holding the chunk "x\n\n", has
\* rendered all its tokens, the partial q under three blanks included
C9_Witness ==
    /\ AtReturn("partial")
    /\ Len(frames) = 2
    /\ indent = <<" ">>
    /\ Top.tokens[1] = Text(<<"x", "\n", "\n">>)
    /\ data.m["a"] = Str(<<"v">>)
    /\ C9_Written(1) =
         <<" ", "x", "\n", "\n", " ", "v",
           " ", "x", "\n", "\n", " ", "v",
           " ", " ", " ", "v", " ", " ", " ", "x", "\n", "\n",
           " ", "e", "\n">>

----------------------------------------------------------------------------
(* C10: with an empty indentation prefix render_text writes the chunk as   *)
(* it is; with a non-empty prefix it splits the chunk after each newline   *)
(* and writes each piece after the prefix, except a piece that is a lone   *)
(* newline, which it writes bare.  Taking the inserted prefixes away gives *)
(* the chunk back, and an empty chunk writes nothing.                      *)

\* the end of the piece that starts at `from`: the next newline, or the
\* end of the chunk
C10_End(chunk, from) ==
    LET nl == { i \in from..Len(chunk) : chunk[i] = "\n" }
    IN  IF nl = {} THEN Len(chunk)
        ELSE CHOOSE i \in nl : \A j \in nl : i <= j

RECURSIVE C10_Pieces(_, _)
C10_Pieces(chunk, from) ==
    IF from > Len(chunk) THEN <<>>
    ELSE <<SubSeq(chunk, from, C10_End(chunk, from))>>
           \o C10_Pieces(chunk, C10_End(chunk, from) + 1)

RECURSIVE C10_Indented(_, _)
C10_Indented(ind, pieces) ==
    IF Len(pieces) = 0 THEN <<>>
    ELSE (IF Head(pieces) = <<"\n">> THEN <<>> ELSE ind)
           \o Head(pieces) \o C10_Indented(ind, Tail(pieces))

\* out without the prefix `ind` at the start of each of its lines
RECURSIVE C10_Strip(_, _, _)
C10_Strip(out, ind, p) ==
    IF p > Len(out) THEN <<>>
    ELSE IF (p = 1 \/ out[p - 1] = "\n")
            /\ p + Len(ind) - 1 <= Len(out)
            /\ SubSeq(out, p, p + Len(ind) - 1) = ind
            /\ Len(ind) > 0
         THEN <<out[p + Len(ind)]>> \o C10_Strip(out, ind, p + Len(ind) + 1)
         ELSE <<out[p]>> \o C10_Strip(out, ind, p + 1)

C10_Text ==
    AtToken("Text")
    => /\ wr' = Write(wr, IF indent = <<>> THEN Tok.text
                          ELSE C10_Indented(indent, C10_Pieces(Tok.text, 1)))
       /\ C10_Strip(C6_Appended, indent, 1) = Tok.text
       /\ Tok.text = <<>> => wr' = wr
       /\ frames' = NextToken(frames)
       /\ status' = "running"

\* C10: a Text step appends the chunk, or under an indent its pieces each
\* after the indent except the lone newlines; stripping the prefixes gives
\* the chunk back.
C10_RenderText == [][C10_Text]_vars

\* the chunk "x\n\n" written under an indent of one blank
C10_Witness ==
    /\ status = "running"
    /\ Len(frames) = 2
    /\ Top.pc = 2
    /\ Top.tokens[1] = Text(<<"x", "\n", "\n">>)
    /\ indent = <<" ">>
    /\ wr = << <<"h", "\n", " ", "x", "\n", "\n">> >>

----------------------------------------------------------------------------
(* C11: each time a non-inverted section whose path resolves to a Callback *)
(* is rendered, the callback is called exactly once, with the raw source   *)
(* text kept on the section token; the string it returns is compiled under *)
(* the delimiters kept on the token and rendered in place of the children, *)
(* which are not rendered.                                                 *)

\* the lambda templates: the one whose section hands over "{{x}}", and the
\* one compiled after "{{=| |=}}"
IsSourceCase ==
    /\ Len(tmpl.tokens) = 1
    /\ tmpl.tokens[1].t = "Section"
    /\ tmpl.tokens[1].path = <<"l">>

IsDelimiterCase ==
    /\ Len(tmpl.tokens) = 2
    /\ tmpl.tokens[1].t = "Section"
    /\ tmpl.tokens[1].otag = "|"

\* the step at the section token: one call, with the token's source and
\* delimiters, and a render of the tokens compiled from what it returns
C11_Call ==
    LET r == find(Tok.path, stack)
    IN  (AtToken("Section") /\ ~Tok.inv /\ r.k = "Some" /\ r.v.t = "Fun")
        => /\ calls' = Append(calls, Call(r.v.f, Tok.src, Tok.otag, Tok.ctag))
           /\ Len(frames') = Len(frames) + 1
           /\ SubSeq(frames', 1, Len(frames)) = frames
           /\ frames'[Len(frames')].tokens =
                compile(call(r.v.f, Tok.src), tmpl.partials, Tok.otag, Tok.ctag).tokens
           /\ frames'[Len(frames')].pc = 1
           /\ stack' = stack
           /\ wr' = wr
           /\ status' = "running"

\* the end of that render leaves the section: the children are not rendered
C11_InPlace ==
    AtReturn("fun")
    => /\ frames' = NextToken(Pop(frames))
       /\ calls' = calls
       /\ wr' = wr
       /\ stack' = stack

\* no other step at a section calls a closure
C11_Once ==
    (AtToken("Section") /\ ~(~Tok.inv /\ find(Tok.path, stack).k = "Some"
                              /\ find(Tok.path, stack).v.t = "Fun"))
    => calls' = calls

\* the outputs the Mustache lambda tests expect: "{{#l}}{{x}}{{/l}}" with
\* the closures of `Section`, `Section - Expansion` and `Section - Multiple
\* Calls`, and "{{=| |=}}..|#l|-|/l|" with the closure of `Section -
\* Alternate Delimiters`
C11_Output ==
    LET f == data.m["l"].f
    IN  /\ (status = "done" /\ IsSourceCase)
           => /\ f = "section" => wr = << <<"y", "e", "s">> >>
              /\ f = "wrap"    => wr = << <<"E">> >>
              /\ f = "under"   => wr = << <<"_", "_">> >>
              /\ f = "foo"     => wr = << <<"f", "o", "o">> >>
        /\ (status = "done" /\ IsDelimiterCase /\ f = "alt_wrap")
           => wr = << <<"M", "|", "p", "|", "M", "|", "p", "|",
                        "-", "{", "{", "p", "}", "}", "E", "-">> >>

\* C11: a section bound to a Callback calls it once with the section's raw
\* source, compiles the result under the token's delimiters and renders it
\* in place of the children.
C11_SectionLambda ==
    []C11_Output /\ [][C11_Call /\ C11_InPlace /\ C11_Once]_vars

\* "{{=| |=}}..|#l|-|/l|" has rendered with the closure returning
\* text + "{{p}}|p|" + text: the closure got "-" and the delimiters "|"
C11_Witness ==
    /\ status = "done"
    /\ IsDelimiterCase
    /\ calls[Len(calls)] = Call("alt_wrap", <<"-">>, "|", "|")
    /\ wr = << <<"M", "|", "p", "|", "M", "|", "p", "|",
                 "-", "{", "{", "p", "}", "}", "E", "-">> >>

----------------------------------------------------------------------------
(* C12: a variable tag whose path resolves to a Callback calls it exactly  *)
(* once with the empty string, compiles what it returns under the default  *)
(* delimiters "{{" and "}}" whatever delimiters are in force at the tag,   *)
(* and renders the tokens inline against the same scope stack.             *)

\* the step at the tag: one call with "" and the default delimiters, the
\* indent written to the writer (the buffer, for an escaped tag), and a
\* render of the compiled tokens on the unchanged stack
C12_Call ==
    LET r == find(Tok.path, stack)
    IN  ((AtToken("UTag") \/ AtToken("ETag")) /\ r.k = "Some" /\ r.v.t = "Fun")
        => /\ calls' = Append(calls, Call(r.v.f, <<>>, "{{", "}}"))
           /\ Len(frames') = Len(frames) + 1
           /\ SubSeq(frames', 1, Len(frames)) = frames
           /\ frames'[Len(frames')].tokens =
                compile(call(r.v.f, <<>>), tmpl.partials, "{{", "}}").tokens
           /\ frames'[Len(frames')].pc = 1
           /\ stack' = stack
           /\ wr' = IF Tok.t = "UTag" THEN Write(wr, indent)
                    ELSE Append(wr, indent)
           /\ status' = "running"

\* the end of that render leaves the tag with the stack as it was
C12_Inline ==
    (AtReturn("utag") \/ AtReturn("etag"))
    => /\ frames' = NextToken(Pop(frames))
       /\ calls' = calls
       /\ stack' = stack

\* a tag that does not resolve to a Callback calls nothing
C12_Once ==
    ((AtToken("UTag") \/ AtToken("ETag"))
        /\ ~(find(Tok.path, stack).k = "Some"
             /\ find(Tok.path, stack).v.t = "Fun"))
    => calls' = calls

\* the outputs the Mustache lambda tests expect: the tags "|&l|" and "|l|"
\* inside the section `s` compiled after "{{=| |=}}", with the closures of
\* `Interpolation - Alternate Delimiters` and `Interpolation - Expansion`
\* (`p` is "M" inside `s`), followed by what the section |#l| renders
C12_Output ==
    LET f == data.m["l"].f
    IN  (status = "done" /\ IsDelimiterCase)
        => /\ f = "alt"
              => wr = << <<"|", "p", "|", "M", "|", "p", "|", "M",
                           "E", "{", "{", "p", "}", "}">> >>
           /\ f = "expand"
              => wr = << <<"M", "M", "{", "{", "p", "}", "}">> >>

\* C12: a variable tag bound to a Callback calls it once with "", compiles
\* the result under "{{" and "}}" and renders it on the unchanged stack.
C12_TagLambda ==
    []C12_Output /\ [][C12_Call /\ C12_Inline /\ C12_Once]_vars

\* inside the section `s` of the template compiled after "{{=| |=}}" the
\* tag |&l| has called the closure returning "|p|{{p}}" and written
\* "|p|M": "{{p}}" was the tag, under the default delimiters
C12_Witness ==
    /\ status = "running"
    /\ IsDelimiterCase
    /\ Len(frames) = 2
    /\ Top.pc = 2
    /\ Top.tokens[1] = UTag(<<"l">>)
    /\ Len(stack) = 2
    /\ calls = <<Call("alt", <<>>, "{{", "}}")>>
    /\ wr = << <<"|", "p", "|", "M">> >>

----------------------------------------------------------------------------
(* C13: rendering the same compiled template twice against the same Data,  *)
(* in which no Callback has a state, writes the same bytes both times:     *)
(* render_data leaves the tokens, the partials and the Data as they are,   *)
(* and each call starts from a stack holding the root alone and an empty   *)
(* indentation prefix.                                                     *)

\* no closure of d captures a counter
RECURSIVE C13_Stateless(_)
C13_Stateless(d) ==
    CASE d.t = "Fun" -> d.f # "count"
      [] d.t = "Vec" -> \A i \in 1..Len(d.xs) : C13_Stateless(d.xs[i])
      [] d.t = "Map" -> \A k \in DOMAIN d.m : C13_Stateless(d.m[k])
      [] OTHER       -> TRUE

C13_SameOutput ==
    C13_Stateless(data) => \A i \in 1..Len(outs) : outs[i] = outs[1]

\* a call of render_data that has rendered no token yet
C13_Fresh ==
    (status = "running" /\ Len(frames) = 1 /\ frames[1].pc = 1)
    => /\ stack = <<data>>
       /\ indent = <<>>
       /\ wr = << <<>> >>
       /\ frames[1].tokens = tmpl.tokens

\* render_data borrows the template and the Data: no step changes them
C13_Immutable == tmpl' = tmpl /\ (status # "render" => data' = data)

\* C13: two renders of the same template and Data without a stateful
\* Callback write the same bytes; every call starts fresh and no step
\* changes the template or the Data.
C13_Idempotent ==
    [](C13_SameOutput /\ C13_Fresh) /\ [][C13_Immutable]_vars

\* the template with the partials p and q has been rendered twice, both
\* times under an indent of one blank, with the same non-empty output
C13_Witness ==
    /\ status = "done"
    /\ Len(outs) = 2
    /\ "p" \in DOMAIN tmpl.partials
    /\ tmpl.tokens[2].ind = <<" ">>
    /\ data.m["a"] = Str(<<"v">>)
    /\ outs[1] = outs[2]
    /\ Len(outs[1]) > 10
    /\ wr = <<outs[2]>>

----------------------------------------------------------------------------
(* C15: Template::render on an input whose encoding meets a value the      *)
(* Encoder does not support (nil, an Option, an enum, at any depth)        *)
(* returns Err(UnsupportedType) and writes nothing, because the encoding   *)
(* ends before any token is rendered; when the encoding succeeds it        *)
(* renders the encoded Data as render_data does and returns Ok.            *)

\* v holds a nil, an Option or an enum
RECURSIVE C15_Unsupported(_)
C15_Unsupported(v) ==
    CASE v.e \in {"nil", "option", "enum"} -> TRUE
      [] v.e = "struct" ->
           \E i \in 1..Len(v.fs) : C15_Unsupported(v.fs[i].v)
      [] v.e = "seq" -> \E i \in 1..Len(v.xs) : C15_Unsupported(v.xs[i])
      [] v.e = "map" ->
           \E i \in 1..Len(v.kvs) :
               C15_Unsupported(v.kvs[i].k) \/ C15_Unsupported(v.kvs[i].v)
      [] OTHER -> FALSE

\* no map of v has a key that encodes to something else than a string, for
\* which the Encoder returns Err(KeyIsNotString) at the key
RECURSIVE C15_StringKeys(_)
C15_StringKeys(v) ==
    CASE v.e = "struct" ->
           \A i \in 1..Len(v.fs) : C15_StringKeys(v.fs[i].v)
      [] v.e = "seq" -> \A i \in 1..Len(v.xs) : C15_StringKeys(v.xs[i])
      [] v.e = "map" ->
           \A i \in 1..Len(v.kvs) :
               /\ v.kvs[i].k.e \notin {"bool", "struct", "seq", "map"}
               /\ C15_StringKeys(v.kvs[i].v)
      [] OTHER -> TRUE

\* the decimal form of the numbers of the cases
C15_Decimal(n) == IF n = 41 THEN <<"4", "1">> ELSE <<"7">>

\* the Data a supported input stands for
RECURSIVE C15_Value(_)
C15_Value(v) ==
    CASE v.e = "str"  -> Str(v.s)
      [] v.e = "bool" -> Bool(v.b)
      [] v.e = "uint" -> Str(C15_Decimal(v.n))
      [] v.e = "seq"  -> Vec([i \in 1..Len(v.xs) |-> C15_Value(v.xs[i])])
      [] v.e = "struct" ->
           Map([n \in {v.fs[i].name : i \in 1..Len(v.fs)} |->
                  C15_Value(v.fs[CHOOSE i \in 1..Len(v.fs) :
                                     /\ v.fs[i].name = n
                                     /\ \A j \in 1..Len(v.fs) :
                                          v.fs[j].name = n => j <= i].v)])
      [] v.e = "map" ->
           Map([n \in {C15_Value(v.kvs[i].k).s[1] : i \in 1..Len(v.kvs)} |->
                  C15_Value(v.kvs[CHOOSE i \in 1..Len(v.kvs) :
                                      /\ C15_Value(v.kvs[i].k).s[1] = n
                                      /\ \A j \in 1..Len(v.kvs) :
                                           C15_Value(v.kvs[j].k).s[1] = n
                                           => j <= i].v)])
      [] OTHER -> Absent

\* the step of Template::render
C15_Render ==
    status = "render"
    => IF ~C15_StringKeys(input) THEN TRUE
       ELSE IF C15_Unsupported(input)
       THEN /\ status' = "UnsupportedType"
            /\ wr' = << <<>> >>
            /\ frames' = <<>>
            /\ outs' = <<>>
       ELSE /\ status' = "running"
            /\ data' = C15_Value(input)
            /\ stack' = <<data'>>
            /\ indent' = <<>>
            /\ frames' = <<Frame(tmpl.tokens, "render_data", <<>>, 0, <<>>)>>
            /\ wr' = << <<>> >>

\* after an Err nothing more happens
C15_Returned ==
    status \in {"UnsupportedType", "KeyIsNotString", "MissingElements"}
    => FALSE

\* Ok is returned with what render_data wrote: "041x5" for
\* {a: [{n: 41}], b: "x"}
C15_Output ==
    /\ status = "UnsupportedType" => (wr = << <<>> >> /\ outs = <<>>)
    /\ (status = "done" /\ input # Absent)
       => /\ outs = <<wr[1]>>
          /\ data = C15_Value(input)
          /\ input = EStruct(<<[name |-> "a",
                                v |-> ESeq(<<EStruct(<<[name |-> "n",
                                                        v |-> EUint(41)]>>)>>)],
                               [name |-> "b", v |-> EStr(<<"x">>)]>>)
             => wr = << <<"0", "4", "1", "x", "5">> >>

\* C15: render returns Err(UnsupportedType) and writes nothing when the
\* encoding meets nil, an Option or an enum; otherwise it renders the
\* encoded Data from the initial state of render_data and returns Ok.
C15_RenderResult == []C15_Output /\ [][C15_Render /\ C15_Returned]_vars

\* render returned Err(UnsupportedType) for {a: [{n: "x"}, {n: Some("x")}],
\* b: "x"}, and "0" was not written
C15_Witness ==
    /\ status = "UnsupportedType"
    /\ input = EStruct(<<[name |-> "a",
                          v |-> ESeq(<<EStruct(<<[name |-> "n",
                                                  v |-> EStr(<<"x">>)]>>),
                                       EStruct(<<[name |-> "n",
                                                  v |-> EOption(<<EStr(<<"x">>)>>)]>>)>>)],
                         [name |-> "b", v |-> EStr(<<"x">>)]>>)
    /\ wr = << <<>> >>

----------------------------------------------------------------------------
(* C14 as stated: equality on Data is structural for Str, Bool, Vec and    *)
(* Map, and comparing a Fun to any Data, another Fun or a Data of another  *)
(* variant, panics instead of returning true or false.                     *)

\* d is a Fun or holds one
RECURSIVE C14_HasFun(_)
C14_HasFun(d) ==
    CASE d.t = "Fun" -> TRUE
      [] d.t = "Vec" -> \E i \in 1..Len(d.xs) : C14_HasFun(d.xs[i])
      [] d.t = "Map" -> \E k \in DOMAIN d.m : C14_HasFun(d.m[k])
      [] OTHER       -> FALSE

C14_Compared == cmp # "none" /\ built # Absent /\ rhs # Absent

C14_Structural ==
    (C14_Compared /\ ~C14_HasFun(built) /\ ~C14_HasFun(rhs))
    => cmp = IF built = rhs THEN "true" ELSE "false"

\* C14 as stated: a comparison with a Fun on either side panics.
C14_Original ==
    /\ C14_Structural
    /\ (C14_Compared /\ (built.t = "Fun" \/ rhs.t = "Fun")) => cmp = "panic"

(* C14 amended: equality is structural for Str, Bool, Vec and Map;         *)
(* comparing two Funs panics, and so does comparing a Data holding a Fun   *)
(* with an equal one; comparing a Fun with a Data of another variant       *)
(* returns false, as does every comparison in which only one side holds a  *)
(* Fun.                                                                    *)
C14_OneSided ==
    (C14_Compared /\ C14_HasFun(built) # C14_HasFun(rhs)) => cmp = "false"

C14_TwoFuns ==
    (C14_Compared /\ C14_HasFun(built) /\ built = rhs) => cmp = "panic"

C14_NeverTrue ==
    (C14_Compared /\ (C14_HasFun(built) \/ C14_HasFun(rhs))) => cmp # "true"

\* C14 amended: structural without Funs; Fun against Fun panics; Fun
\* against another variant is false.
C14_Equality ==
    /\ C14_Structural
    /\ C14_OneSided
    /\ C14_TwoFuns
    /\ C14_NeverTrue
    /\ (C14_Compared /\ built.t = "Fun" /\ rhs.t = "Fun") => cmp = "panic"

\* Fun("foo") == Str("a") has returned false
C14_Witness ==
    /\ built = Fun("foo")
    /\ rhs = Str(<<"a">>)
    /\ cmp = "false"

----------------------------------------------------------------------------
(* C16: the Data built through MapBuilder / VecBuilder equals the Data     *)
(* constructed directly: build gives a Map holding the inserted keys with  *)
(* their values, the results of nested builders included, or a Vec holding *)
(* the pushed elements in the order of the pushes; a builder without       *)
(* insertions gives the empty Map or the empty Vec.                        *)

\* what build() returned is the Data constructed directly
C16_Built == built # Absent => built = want

\* while the chain runs, the outermost VecBuilder holds the first elements
\* of the Vec in order, and the outermost MapBuilder holds keys of the Map
C16_Partial ==
    builders # <<>>
    => IF want.t = "Vec"
       THEN /\ builders[1].t = "VecBuilder"
            /\ Len(builders[1].xs) <= Len(want.xs)
            /\ builders[1].xs = SubSeq(want.xs, 1, Len(builders[1].xs))
       ELSE /\ builders[1].t = "MapBuilder"
            /\ DOMAIN builders[1].m \subseteq DOMAIN want.m

C16_Empty ==
    /\ (built # Absent /\ want.t = "Map" /\ DOMAIN want.m = {})
       => built = Map(<<>>)
    /\ (built # Absent /\ want.t = "Vec" /\ want.xs = <<>>)
       => built = Vec(<<>>)

\* assert_eq!(built, want) passes when the Data holds no Fun
C16_AssertEq ==
    (cmp # "none" /\ rhs = want /\ ~C14_HasFun(want)) => cmp = "true"

\* C16: what the builders build is the Data constructed directly, keys,
\* nesting and order included.
C16_Builders == C16_Built /\ C16_Partial /\ C16_Empty /\ C16_AssertEq

\* the chain insert("a", &41u).insert_vec("b", |b| b.push_str("a")
\* .push_map(|b| b.insert("a", &41u))).build() has run and the result
\* equals the Map written out by hand
C16_Witness ==
    /\ builders = <<>>
    /\ built = Map([a |-> Str(<<"4", "1">>),
                    b |-> Vec(<<Str(<<"a">>),
                                Map([a |-> Str(<<"4", "1">>)])>>)])
    /\ rhs = want
    /\ cmp = "true"

----------------------------------------------------------------------------
(* C17: two render_data calls on the same Template and the same Data       *)
(* holding no Fun, interleaved in any order between tokens, each write     *)
(* what a call running alone writes: each call has its own stack, indent   *)
(* and writer, and no step of one call changes what the other reads.       *)

\* every call that returned wrote what the call that ran alone wrote
C17_SameOutput == \A i \in 1..Len(outs) : outs[i] = outs[1]

\* two calls standing at the same place have written the same and hold
\* the same stack and indent, whatever the other did in between
C17_Lockstep ==
    (other # NoCall /\ other.frames = frames)
    => /\ other.wr = wr
       /\ other.stack = stack
       /\ other.indent = indent

\* each call's stack rests on the root Data both calls read
C17_OwnStack ==
    /\ (status = "running" => stack # <<>> /\ stack[1] = data)
    /\ (other # NoCall /\ other.status = "running")
       => (other.stack # <<>> /\ other.stack[1] = data)

\* a step of one call leaves the Template, the Data and the suspended
\* call as they are
C17_NoSharedWrite ==
    RenderStep => (tmpl' = tmpl /\ data' = data /\ calls' = calls
                   /\ other' = other)

\* C17: interleaved calls write what a call alone writes, and no step of
\* one call changes the state of the other.
C17_Interleaved ==
    /\ [](C17_SameOutput /\ C17_Lockstep /\ C17_OwnStack)
    /\ [][C17_NoSharedWrite]_vars

\* one call has returned what the call alone returned while the other is
\* suspended inside an indented partial, having written part of its output
C17_Witness ==
    /\ status = "done"
    /\ Len(outs) = 2
    /\ outs[2] = outs[1]
    /\ other # NoCall
    /\ other.status = "running"
    /\ Len(other.frames) > 1
    /\ other.indent # <<>>
    /\ other.wr[1] # <<>>
    /\ other.wr[1] # outs[1]

----------------------------------------------------------------------------
(* C18: the stack of a render_data call is a stack: it starts as the root  *)
(* Data alone, it is never empty and its bottom is the root, and when the  *)
(* rendering of a token returns it holds what it held before the token.    *)

\* the stack the calls of render in frames[1..j] have built: the root,
\* and one Data for each running iteration of a Vec section and for each
\* running Map section
RECURSIVE C18_StackOf(_)
C18_StackOf(j) ==
    IF j <= 1 THEN <<data>>
    ELSE LET below == C18_StackOf(j - 1)
             at    == frames[j - 1].tokens[frames[j - 1].pc]
         IN  CASE frames[j].k = "vec" ->
                    Append(below, frames[j].vs[frames[j].i])
               [] frames[j].k = "map" ->
                    Append(below, find(at.path, below).v)
               [] OTHER -> below

C18_Rooted ==
    status \in {"running", "done", "panic"}
    => (stack # <<>> /\ stack[1] = data)

C18_Shape ==
    /\ status \in {"running", "panic"} => stack = C18_StackOf(Len(frames))
    /\ status = "done" => stack = <<data>>

\* a call starts on the root alone
C18_Starts ==
    (status # "running" /\ status' = "running") => stack' = <<data'>>

\* a step pushes one Data, pops one, or pops one and pushes the next
\* element of the Vec
C18_PushPop ==
    (status = "running" /\ status' \in {"running", "panic", "done"})
    => \/ stack' = stack
       \/ (stack' # <<>> /\ Pop(stack') = stack)
       \/ stack' = Pop(stack)
       \/ (AtReturn("vec") /\ Len(stack') = Len(stack)
             /\ Pop(stack') = Pop(stack))

\* the token a call of render stood on is done: the stack is the one the
\* token was started with
C18_Restored ==
    LET d == Len(frames')
    IN  (/\ status = "running"
         /\ d >= 1
         /\ d <= Len(frames)
         /\ frames'[d].pc = frames[d].pc + 1)
        => /\ stack' = C18_StackOf(d)
           /\ stack' = SubSeq(stack, 1, Len(stack'))

\* C18: never empty, bottom is the root, and every token leaves the stack
\* as it found it.
C18_StackDiscipline ==
    /\ [](C18_Rooted /\ C18_Shape)
    /\ [][C18_Starts /\ C18_PushPop /\ C18_Restored]_vars

\* "0{{#a}}1 {{n}} 3{{/a}}5" over a Vec of two Maps: both elements were
\* pushed, rendered and popped, and render stands on the Text "5" with the
\* root alone on the stack
C18_Witness ==
    /\ IsSectionCase
    /\ ~tmpl.tokens[2].inv
    /\ "a" \in DOMAIN data.m
    /\ data.m["a"].t = "Vec"
    /\ Len(data.m["a"].xs) = 2
    /\ \A i \in 1..2 : data.m["a"].xs[i].t = "Map"
    /\ status = "running"
    /\ Len(frames) = 1
    /\ Top.pc = 3
    /\ stack = <<data>>

----------------------------------------------------------------------------
(* C19: whenever find resolves a non-empty path, every frame of the stack  *)
(* it scans is a Map, so its arm panic!("expect map") is never taken, for  *)
(* every template and every root Map, sections over a Vec of Str, Bool or  *)
(* Vec included.                                                           *)

\* render stands on a token whose rendering calls find on a named path
C19_AtFind ==
    /\ status = "running"
    /\ frames # <<>>
    /\ Top.pc <= Len(Top.tokens)
    /\ Tok.t \in {"ETag", "UTag", "Section"}
    /\ Tok.path # <<>>

\* C19: find never meets a frame that is not a Map.
C19_FindScansTables ==
    C19_AtFind => find(Tok.path, stack).k # "Panic"

----------------------------------------------------------------------------
(* C20: a section that is not inverted handles a resolved Bool, Vec, Map   *)
(* or Fun; a section whose path resolves to a Str panics and the render    *)
(* is aborted, without rendering the children and without skipping the     *)
(* section.                                                                *)

\* render stands on a section that is not inverted
C20_AtSection ==
    /\ status = "running"
    /\ frames # <<>>
    /\ Top.pc <= Len(Top.tokens)
    /\ Tok.t = "Section"
    /\ ~Tok.inv

C20_Resolved == find(Tok.path, stack)

\* the section's path resolves to a Str: the render panics where it stands
C20_StrPanics ==
    (C20_AtSection /\ C20_Resolved.k = "Some" /\ C20_Resolved.v.t = "Str")
    => /\ status' = "panic"
       /\ frames' = frames
       /\ wr' = wr
       /\ stack' = stack

\* the values the section handles: it goes on, into the children or past
\* the section
C20_Handled ==
    (C20_AtSection /\ C20_Resolved.k = "Some"
       /\ C20_Resolved.v.t \in {"Bool", "Vec", "Map", "Fun"})
    => /\ status' = "running"
       /\ \/ Len(frames') = Len(frames) + 1
          \/ frames' = NextToken(frames)

\* a render that panicked at a section found a Str, or find itself panicked
C20_OnlyStr ==
    (C20_AtSection /\ status' = "panic")
    => \/ C20_Resolved.k = "Panic"
       \/ (C20_Resolved.k = "Some" /\ C20_Resolved.v.t = "Str")

\* nothing is written after the panic
C20_Aborted == (status = "panic") => UNCHANGED vars

\* C20: Bool, Vec, Map and Fun are handled, a Str panics.
C20_SectionOverStr ==
    [][C20_StrPanics /\ C20_Handled /\ C20_OnlyStr /\ C20_Aborted]_vars

\* "0{{#a}}1 {{n}} 3{{/a}}5" with a = Str("x") has panicked at the section
\* after writing "0"
C20_Witness ==
    /\ IsSectionCase
    /\ data = Map([a |-> Str(<<"x">>)])
    /\ status = "panic"
    /\ Len(frames) = 1
    /\ Tok.t = "Section"
    /\ ~Tok.inv
    /\ wr = << <<"0">> >>

----------------------------------------------------------------------------
(* C21 as stated: render_data returns for every template, partials that    *)
(* include themselves or each other too, and every Data, and the depth of  *)
(* the calls of render is bounded by the nesting depth of the sections and *)
(* partials of the template.                                               *)

\* the nesting depth of tokens: one for the sequence itself, plus the
\* deepest section or partial in it; a partial is followed once on a path
RECURSIVE C21_Nesting(_, _)
C21_Nesting(tokens, seen) ==
    LET inner(tok) ==
            CASE tok.t = "Section" -> C21_Nesting(tok.children, seen)
              [] tok.t = "Partial" /\ tok.name \in DOMAIN tmpl.partials
                                   /\ tok.name \notin seen ->
                   C21_Nesting(tmpl.partials[tok.name], seen \cup {tok.name})
              [] OTHER -> 0
        ds == { inner(tokens[i]) : i \in 1..Len(tokens) }
    IN  1 + (IF ds = {} THEN 0 ELSE CHOOSE d \in ds : \A e \in ds : e <= d)

\* the render does not run out of stack
C21_Returns == status # "overflow"

C21_DepthBounded ==
    (status \in {"running", "overflow"} /\ CallbackFree(data))
    => Len(frames) <= C21_Nesting(tmpl.tokens, {})

RECURSIVE C21_Refs(_)
C21_Refs(tokens) ==
    LET lambda(tok) ==
            IF /\ data.t = "Map"
               /\ Len(tok.path) = 1
               /\ tok.path[1] \in DOMAIN data.m
               /\ data.m[tok.path[1]].t = "Fun"
            THEN partial_names(render_fun(tok.src, "{{", "}}",
                                          data.m[tok.path[1]].f))
            ELSE {}
        refs(tok) ==
            CASE tok.t = "Partial" -> {tok.name}
              [] tok.t = "Section" -> C21_Refs(tok.children) \cup lambda(tok)
              [] tok.t \in {"ETag", "UTag"} -> lambda(tok)
              [] OTHER -> {}
    IN  UNION { refs(tokens[i]) : i \in 1..Len(tokens) }

\* the partials reached from the partials S in n steps or fewer
RECURSIVE C21_Reach(_, _)
C21_Reach(S, n) ==
    IF n = 0 THEN S
    ELSE C21_Reach(S \cup UNION { C21_Refs(tmpl.partials[m]) :
                                   m \in S \cap DOMAIN tmpl.partials }, n - 1)

\* no partial of the template includes itself
C21_Acyclic ==
    \A n \in DOMAIN tmpl.partials :
        n \notin C21_Reach(C21_Refs(tmpl.partials[n]),
                           Cardinality(DOMAIN tmpl.partials))

C21_Ends ==
    (status = "running" /\ C21_Acyclic) ~> (status \in {"done", "panic"})

----------------------------------------------------------------------------
(* C22: render_fun compiles the text of a lambda with the partials of the  *)
(* template as the partials known so far and keeps the tokens only; a      *)
(* partial tag in that text is rendered from the template's own partials,  *)
(* renders nothing when its name is not among them, and no render changes  *)
(* the template's partials.                                                *)

\* render is inside the tokens of a lambda
C22_InLambda ==
    \E j \in 1..Len(frames) : frames[j].k \in {"fun", "utag", "etag"}

\* what the compiler of the last call of render_fun returned
C22_Compiled ==
    LET c == calls[Len(calls)]
    IN  compile(call(c.f, c.text), tmpl.partials, c.otag, c.ctag)

\* a partial tag of the lambda's text, when its name is in the template's
\* partials, is rendered from them
C22_Known ==
    (AtToken("Partial") /\ C22_InLambda
       /\ Tok.name \in DOMAIN tmpl.partials /\ Len(frames) < MaxDepth)
    => /\ Len(frames') = Len(frames) + 1
       /\ frames'[Len(frames')].tokens = tmpl.partials[Tok.name]
       /\ frames'[Len(frames')].k = "partial"

\* and renders nothing otherwise, loaded by the compiler or not
C22_Unknown ==
    (AtToken("Partial") /\ C22_InLambda /\ Tok.name \notin DOMAIN tmpl.partials)
    => /\ frames' = NextToken(frames)
       /\ wr' = wr
       /\ indent' = indent
       /\ status' = status

\* the tokens rendered for a lambda are the tokens the compiler returned
C22_Tokens ==
    (calls' # calls /\ status' = "running")
    => /\ Len(calls') = Len(calls) + 1
       /\ LET c == calls'[Len(calls')]
          IN  frames'[Len(frames')].tokens =
                compile(call(c.f, c.text), tmpl.partials, c.otag,
                        c.ctag).tokens

\* "{{{l}}}-{{#l}}x{{/l}}" with l returning "{{>q}}[{{>d}}]", q being
\* "Q{{p}}" in the template and d a file: "QE[]-QE[]"
C22_Output ==
    (/\ tmpl \in { c.tmpl : c \in LambdaPartialCases }
     /\ tmpl.partials # <<>>
     /\ tmpl.partials["q"] = <<Text(<<"Q">>), ETag(<<"p">>)>>
     /\ data.m["l"] = Fun("include")
     /\ status = "done")
    => wr[1] = <<"Q", "E", "[", "]", "-", "Q", "E", "[", "]">>

\* C22: lambda text is compiled with the template's partials, its partial
\* tags render from them or render nothing, and the template is unchanged.
C22_LambdaPartials ==
    /\ []C22_Output
    /\ [][C22_Known /\ C22_Unknown /\ C22_Tokens /\ tmpl' = tmpl]_vars

\* the render of "{{{l}}}-{{#l}}x{{/l}}" has returned "QE[]-QE[]": the
\* compiler of render_fun had loaded the partial d, which the template's
\* partials do not hold
C22_Witness ==
    /\ status = "done"
    /\ Len(calls) = 2
    /\ calls[2].f = "include"
    /\ "d" \in DOMAIN C22_Compiled.partials
    /\ "q" \in DOMAIN tmpl.partials
    /\ "d" \notin DOMAIN tmpl.partials
    /\ tmpl.partials["q"] = <<Text(<<"Q">>), ETag(<<"p">>)>>
    /\ wr[1] = <<"Q", "E", "[", "]", "-", "Q", "E", "[", "]">>

----------------------------------------------------------------------------
(* C23: render_utag writes the indent once before the value of every tag   *)
(* whose path is found, at the start of a line or not, and writes nothing  *)
(* when the path is not found; render_etag escapes the indent with the     *)
(* value; for a Fun the indent is written before the tokens of the lambda, *)
(* whose Text tokens render_text indents again.                            *)

C23_Found == find(Tok.path, stack)

\* {{{a}}} on a Str: the indent, then the value
C23_UTag ==
    (AtToken("UTag") /\ C23_Found.k = "Some" /\ C23_Found.v.t = "Str")
    => wr' = Write(wr, indent \o C23_Found.v.s)

\* {{a}} on a Str: the indent and the value, escaped together
C23_ETag ==
    (AtToken("ETag") /\ C23_Found.k = "Some" /\ C23_Found.v.t = "Str")
    => wr' = Write(wr, escape(indent \o C23_Found.v.s))

\* a path that is not found: nothing is written
C23_NotFound ==
    ((AtToken("UTag") \/ AtToken("ETag")) /\ C23_Found.k = "None")
    => (wr' = wr /\ frames' = NextToken(frames))

\* a Fun: the indent goes to the writer, or opens the buffer that is
\* escaped when the lambda's tokens are done, and the tokens follow
C23_Fun ==
    /\ (AtToken("UTag") /\ C23_Found.k = "Some" /\ C23_Found.v.t = "Fun")
       => (wr' = Write(wr, indent) /\ Len(frames') = Len(frames) + 1)
    /\ (AtToken("ETag") /\ C23_Found.k = "Some" /\ C23_Found.v.t = "Fun")
       => (wr' = Append(wr, indent) /\ Len(frames') = Len(frames) + 1)
    /\ AtReturn("etag")
       => wr' = Write(Pop(wr), escape(wr[Len(wr)]))

\* the Text tokens of the lambda are indented by render_text
C23_LambdaText ==
    (AtToken("Text") /\ Top.k \in {"utag", "etag"})
    => wr' = Write(wr, render_text(indent, Tok.text))

C23_IsCase(v) ==
    /\ tmpl = PartialTemplate(<<"x">>, <<" ">>)
    /\ data = Map([a |-> v, s |-> Bool(TRUE)])
    /\ status = "done"

\* "h\n{{>p}}.." with p = "x{{{a}}}{{#s}}x{{a}}{{/s}}{{>q}}..e\n" included
\* under " " and q = "{{a}}x" under two more blanks: the tags stand in the
\* middle of the line and are preceded by the indent each
C23_Output ==
    /\ C23_IsCase(Str(<<"v">>))
       => wr[1] = <<"h", "\n", " ", "x", " ", "v", " ", "x", " ", "v",
                    " ", " ", " ", "v", " ", " ", " ", "x",
                    " ", "e", "\n", "x">>
    /\ C23_IsCase(Fun("foo"))
       => wr[1] = <<"h", "\n", " ", "x", " ", " ", "f", "o", "o",
                    " ", "x", " ", " ", "f", "o", "o",
                    " ", " ", " ", " ", " ", " ", "f", "o", "o",
                    " ", " ", " ", "x", " ", "e", "\n", "x">>

\* C23: the indent is written once before every found value, escaped with
\* it by render_etag, and before the tokens of a lambda.
C23_TagIndent ==
    /\ []C23_Output
    /\ [][C23_UTag /\ C23_ETag /\ C23_NotFound /\ C23_Fun
            /\ C23_LambdaText]_vars

\* the partial p was rendered under the indent " " with a bound to the
\* closure returning "foo": "x  foo" stands on the second line of the output
C23_Witness ==
    /\ C23_IsCase(Fun("foo"))
    /\ Len(calls) = 3
    /\ SubSeq(wr[1], 3, 9) = <<" ", "x", " ", " ", "f", "o", "o">>

----------------------------------------------------------------------------
(* C24: a well-nested sequence of Encoder calls (emit_struct with          *)
(* emit_struct_field, emit_seq with emit_seq_elt, emit_map with            *)
(* emit_map_elt_key and emit_map_elt_val, and the scalar emits) that       *)
(* returns Ok leaves Encoder.data one element deeper than it found it, so  *)
(* the assert_eq! of encode holds after every successful encoding, and the *)
(* element holds no Fun.                                                   *)

\* what Encoder.data holds when the encoding of a value starts
C24_Stacks == { <<>>, <<Str(<<"k">>)>>, <<Map(<<>>), Vec(<<>>)>> }

\* the input, and the input as both elements of a sequence, as a field
\* written twice and as the value of a map entry
C24_Wrapped(v) ==
    { v,
      ESeq(<<v, v>>),
      EStruct(<<[name |-> "f", v |-> v], [name |-> "f", v |-> v]>>),
      EMap(<<[k |-> EStr(<<"k">>), v |-> v]>>) }

C24_OneDeeper ==
    status = "render"
    => \A v \in C24_Wrapped(input), enc \in C24_Stacks :
           LET r == emit(v, enc)
           IN  r.r = "Ok"
               => /\ Len(r.data) = Len(enc) + 1
                  /\ SubSeq(r.data, 1, Len(enc)) = enc
                  /\ CallbackFree(r.data[Len(r.data)])

\* the assertion of encode does not fail
C24_Asserted ==
    status = "render"
    => \A v \in C24_Wrapped(input) :
           /\ encode(v).r # "panic"
           /\ emit(v, <<>>).r = "Ok" => encode(v).v = emit(v, <<>>).data[1]

\* Template::render goes on with the one Data the Encoder holds
C24_Encoded ==
    status = "render"
    => /\ status' # "panic"
       /\ status' = "running"
          => /\ emit(input, <<>>).data = <<data'>>
             /\ CallbackFree(data')

\* C24: a successful encoding leaves exactly one Data more, without Fun.
C24_EncoderStack ==
    /\ [](C24_OneDeeper /\ C24_Asserted)
    /\ [][C24_Encoded]_vars

\* a struct holding a sequence of two structs and a string was encoded to
\* one Map, on which the render has started
C24_Witness ==
    /\ status = "running"
    /\ input = EStruct(<<[name |-> "a",
                          v |-> ESeq(<<EStruct(<<[name |-> "n",
                                                    v |-> EUint(41)]>>),
                                       EStruct(<<[name |-> "n",
                                                    v |-> EBool(TRUE)]>>)>>)],
                         [name |-> "b", v |-> EStr(<<"x">>)]>>)
    /\ emit(input, <<>>).data = <<data>>
    /\ data = Map([a |-> Vec(<<Map([n |-> Str(<<"4", "1">>)]),
                               Map([n |-> Bool(TRUE)])>>),
                   b |-> Str(<<"x">>)])
    /\ Len(frames) = 1
    /\ frames[1].pc = 1

====
